---------------------------- MODULE Spec2Model ----------------------------
(***************************************************************************)
(* Model of the interpolation engine of src/src/interpolation.py and of    *)
(* the way src/app.py drives it.                                           *)
(*                                                                         *)
(* Numbers.  A float64 is a record [t, n, d]: t = "num" is the rational    *)
(* n/d (d > 0, reduced), t = "nan" is NaN, t = "inf" is +infinity and      *)
(* t = "str" is a value that is no number at all (a keyword argument is    *)
(* not type-checked by the constructor).  Coordinates are integers counted *)
(* in quanta of 1/20 of the sample spacing, so that the 5% padding and the *)
(* linspace steps of the grids drawn here are whole numbers.               *)
(***************************************************************************)
EXTENDS Integers, Sequences, FiniteSets, TLC

VARIABLES
    KRIGING_AVAILABLE, \* interpolation.py:12-18, set by the import
    METHODS,           \* InterpolationEngine.METHODS, identifier -> label
    filterAction,      \* action of the warnings filter in force
    onceRegistry,      \* warnings already shown under the "default" action
    pc,                \* "idle" | "ready" | "returned" | "masked"
    engine,            \* the InterpolationEngine instance, or NoEngine
    ctor,              \* outcome of the last constructor call
    call,              \* inputs and outcome of the last interpolate call
    masked,            \* inputs and outcome of the last mask_extrapolation_regions call
    engines,           \* the engine objects that concurrent callers share
    frames,            \* the frame of each thread inside interpolate
    maskLog,           \* the mask_extrapolation_regions calls made on one grid
    loop,              \* the frame of _idw, cell by cell
    memo,              \* the entries st.cache_data holds for compute_interpolation
    app,               \* inputs and outcome of the last compute_interpolation call
    disk,              \* the cache file of the geocoder
    geo                \* inputs and outcome of the last get_tracts call

\* the state of the threads that call interpolate concurrently
concVars == <<engines, frames>>

\* the state of the single caller
seqVars == <<pc, engine, ctor, call, masked>>

\* what the import of src.interpolation sets up
importVars == <<KRIGING_AVAILABLE, METHODS, filterAction, onceRegistry>>

\* the state of the callers of the mask, of _idw, of compute_interpolation and
\* of the geocoder
restVars == <<maskLog, loop, memo, app, disk, geo>>

vars ==
    <<KRIGING_AVAILABLE, METHODS, filterAction, onceRegistry, pc, engine, ctor, call,
      masked, engines, frames, maskLog, loop, memo, app, disk, geo>>

-----------------------------------------------------------------------------
(* Bounds of the model *)

\* longest raw sample array handed to interpolate
MaxLen == 3

-----------------------------------------------------------------------------
(* float64 values *)

Num(n, d) == [t |-> "num", n |-> n, d |-> d]
Int2F(n) == Num(n, 1)
NaN == [t |-> "nan", n |-> 0, d |-> 1]
Inf == [t |-> "inf", n |-> 0, d |-> 1]
NotANumber == [t |-> "str", n |-> 0, d |-> 1]

\* np.isnan, elementwise
isnan(v) == v.t = "nan"

IsFinite(v) == v.t = "num"

Abs(a) == IF a < 0 THEN -a ELSE a

\* the array a itself; the comparison makes TLC tabulate an array that is
\* written as a function constructor once, instead of at every use
Array(a) == IF a = <<>> THEN <<>> ELSE a

RECURSIVE Gcd(_, _)
Gcd(a, b) == IF b = 0 THEN Abs(a) ELSE Gcd(b, a % b)

Lcm(a, b) == (a \div Gcd(a, b)) * b

\* the rational n/d in lowest terms with a positive denominator
Frac(n, d) ==
    LET g == Gcd(n, d)
        s == IF d < 0 THEN -1 ELSE 1
    IN  Num((s * n) \div g, (s * d) \div g)

RECURSIVE Pow(_, _)
Pow(b, e) == IF e = 0 THEN 1 ELSE b * Pow(b, e - 1)

-----------------------------------------------------------------------------
(* The Method Registry *)

BaseMethods ==
    [m \in {"idw", "linear", "cubic", "nearest", "rbf_multiquadric",
            "rbf_gaussian", "rbf_thin_plate", "rbf_linear"} |->
        CASE m = "idw" -> "Inverse Distance Weighting"
          [] m = "linear" -> "Linear Interpolation"
          [] m = "cubic" -> "Cubic Interpolation"
          [] m = "nearest" -> "Nearest Neighbor"
          [] m = "rbf_multiquadric" -> "RBF (Multiquadric)"
          [] m = "rbf_gaussian" -> "RBF (Gaussian)"
          [] m = "rbf_thin_plate" -> "RBF (Thin Plate Spline)"
          [] m = "rbf_linear" -> "RBF (Linear)"]

KrigingMethods ==
    [m \in {"kriging_ordinary", "kriging_universal"} |->
        IF m = "kriging_ordinary" THEN "Ordinary Kriging" ELSE "Universal Kriging"]

\* dict.update
Update(f, g) ==
    [k \in DOMAIN f \cup DOMAIN g |-> IF k \in DOMAIN g THEN g[k] ELSE f[k]]

ClassBody_OneKriging(available) ==
    IF available
    THEN Update(BaseMethods, [m \in {"kriging_ordinary"} |-> "Ordinary Kriging"])
    ELSE BaseMethods

ClassBody_AlwaysKriging(available) == Update(BaseMethods, KrigingMethods)

\* the class body of InterpolationEngine, run once when the module is imported
ClassBody(available) ==
    IF available THEN Update(BaseMethods, KrigingMethods) ELSE BaseMethods

\* str.startswith for the two prefixes the source tests
StartsWithKriging(m) == m \in {"kriging_ordinary", "kriging_universal"}
StartsWithRbf(m) ==
    m \in {"rbf_multiquadric", "rbf_gaussian", "rbf_thin_plate", "rbf_linear"}


\* identifiers a caller may select: those of the registry and one that no
\* registry holds
UnknownIds == {"spline"}
MethodIds == DOMAIN BaseMethods \cup DOMAIN KrigingMethods \cup UnknownIds

-----------------------------------------------------------------------------
(* Exceptions and warnings *)

\* an exception object: its class, its message (msg, with the method it names
\* and the identifiers it lists), the exception it was raised from (cause,
\* `raise ... from e`) and the exception that was being handled when it was
\* raised (context); "" stands for None
Exc(cls, msg, names, lists, cause, context) ==
    [cls |-> cls, msg |-> msg, names |-> names, lists |-> lists,
     cause |-> cause, context |-> context]

NoExc == Exc("", "", "", {}, "", "")

\* what the external libraries (scipy Rbf and griddata, PyKrige) raise
LibError == Exc("LibError", "singular matrix", "", {}, "", "")

\* a warning handed to warnings.warn: its text (the prefix the source writes and
\* the str() of the exception it embeds) and the line that issues it
Warning(text, reason, lineno) == [text |-> text, reason |-> reason, lineno |-> lineno]

-----------------------------------------------------------------------------
(* InterpolationEngine.__init__ *)

Absent == [t |-> "absent", n |-> 0, d |-> 1]

\* **kwargs: a key that was not passed holds Absent ("" for the string-valued key)
Kwargs(power, smoothing, variogram_model, rbf_smooth) ==
    [power |-> power, smoothing |-> smoothing,
     variogram_model |-> variogram_model, rbf_smooth |-> rbf_smooth]

NoKwargs == Kwargs(Absent, Absent, "", Absent)

\* dict.get(key, default), absent the value that marks a key not passed
Get(v, absent, default) == IF v = absent THEN default ELSE v

NoEngine ==
    [method |-> "", kwargs |-> NoKwargs, power |-> Absent, smoothing |-> Absent,
     variogram_model |-> "", rbf_smooth |-> Absent]

Init_NoRegistryCheck(registry, available, method, kwargs) ==
    [raised |-> NoExc,
     self |-> [method |-> method, kwargs |-> kwargs,
               power |-> Get(kwargs.power, Absent, Int2F(2)),
               smoothing |-> Get(kwargs.smoothing, Absent, Int2F(0)),
               variogram_model |-> Get(kwargs.variogram_model, "", "gaussian"),
               rbf_smooth |-> Get(kwargs.rbf_smooth, Absent, Int2F(0))]]

\* __init__: the exception it raises (NoExc when it returns) and the instance
InitEngine(registry, available, method, kwargs) ==
    IF method \notin DOMAIN registry
    THEN [raised |-> Exc("ValueError", "Unknown method", method,
                         DOMAIN registry, "", ""),
          self |-> NoEngine]
    ELSE IF StartsWithKriging(method) /\ ~available
    THEN [raised |-> Exc("ValueError", "Kriging methods require PyKrige",
                         "", {}, "", ""),
          self |-> NoEngine]
    ELSE [raised |-> NoExc,
          self |-> [method |-> method, kwargs |-> kwargs,
                    power |-> Get(kwargs.power, Absent, Int2F(2)),
                    smoothing |-> Get(kwargs.smoothing, Absent, Int2F(0)),
                    variogram_model |-> Get(kwargs.variogram_model, "", "gaussian"),
                    rbf_smooth |-> Get(kwargs.rbf_smooth, Absent, Int2F(0))]]

-----------------------------------------------------------------------------
(* interpolate: cleaning and the grid *)

RECURSIVE Compress(_, _)
\* a[mask]: the entries of a at the indices where mask holds, in order
Compress(a, mask) ==
    IF a = <<>> THEN <<>>
    ELSE LET rest == Compress(Tail(a), Tail(mask))
         IN  IF Head(mask) THEN <<Head(a)>> \o rest ELSE rest

\* valid_mask = ~(np.isnan(x) | np.isnan(y) | np.isnan(z))
ValidMask(x, y, z) ==
    [i \in 1..Len(x) |-> ~(isnan(x[i]) \/ isnan(y[i]) \/ isnan(z[i]))]

\* the coordinates of a cleaned array as integers
Ints(a) == Array([i \in 1..Len(a) |-> a[i].n])

SeqMin(a) == CHOOSE v \in {a[i] : i \in 1..Len(a)} : \A i \in 1..Len(a) : v <= a[i]
SeqMax(a) == CHOOSE v \in {a[i] : i \in 1..Len(a)} : \A i \in 1..Len(a) : v >= a[i]

Padding_TenPercent(lo, hi) == ((hi - lo) * 10) \div 100

\* (max - min) * 0.05
Padding(lo, hi) == ((hi - lo) * 5) \div 100

\* explicit bounds, or None
NoBounds == [given |-> FALSE, min_x |-> 0, min_y |-> 0, max_x |-> 0, max_y |-> 0]
Bounds(min_x, min_y, max_x, max_y) ==
    [given |-> TRUE, min_x |-> min_x, min_y |-> min_y, max_x |-> max_x, max_y |-> max_y]

\* lines 103-117, x and y the cleaned (non-empty when bounds is None) coordinates
ComputeBounds(x, y, bounds) ==
    IF ~bounds.given
    THEN LET x_padding == Padding(SeqMin(x), SeqMax(x))
             y_padding == Padding(SeqMin(y), SeqMax(y))
         IN  Bounds(SeqMin(x) - x_padding, SeqMin(y) - y_padding,
                    SeqMax(x) + x_padding, SeqMax(y) + y_padding)
    ELSE bounds

linspace_OneMore(start, stop, num) ==
    Array([k \in 1..(num + 1) |-> start + ((k - 1) * (stop - start)) \div num])

\* np.linspace(start, stop, num) for num >= 0: num evenly spaced samples, the
\* last one set to stop
linspace(start, stop, num) ==
    Array([k \in 1..num |->
        IF num > 1 /\ k = num THEN stop
        ELSE IF num > 1 THEN start + ((k - 1) * (stop - start)) \div (num - 1)
        ELSE start])

meshgrid_ij(xi, yi) ==
    [XI |-> Array([i \in 1..Len(xi) |-> [j \in 1..Len(yi) |-> xi[i]]]),
     YI |-> Array([i \in 1..Len(xi) |-> [j \in 1..Len(yi) |-> yi[j]]])]

\* np.meshgrid(xi, yi): XI[i][j] = xi[j], YI[i][j] = yi[i]
meshgrid(xi, yi) ==
    [XI |-> Array([i \in 1..Len(yi) |-> [j \in 1..Len(xi) |-> xi[j]]]),
     YI |-> Array([i \in 1..Len(yi) |-> [j \in 1..Len(xi) |-> yi[i]]])]

-----------------------------------------------------------------------------
(* _idw *)

RECURSIVE CeilSqrtFrom(_, _)
CeilSqrtFrom(r, q) == IF r * r >= q THEN r ELSE CeilSqrtFrom(r + 1, q)

\* np.sqrt of a whole number, rounded up to the coordinate quantum (float64
\* rounds it to 53 bits); exact on perfect squares
sqrt(q) == CeilSqrtFrom(0, q)

\* sqrt over the squared distances of the grids drawn here, computed once
SqrtTable == [q \in 0..(2 * 21 * 21) |-> sqrt(q)]

\* (x - XI[i, j])**2 + (y - YI[i, j])**2, per sample
SquaredDistances(x, y, gx, gy) ==
    Array([k \in 1..Len(x) |-> (x[k] - gx) * (x[k] - gx) + (y[k] - gy) * (y[k] - gy)])

\* distances[k] < 1e-10 for distances = sqrt(sq) + smoothing, decided exactly:
\* 1e-10 is below every positive difference of two values counted in quanta
Below1em10(sq, smoothing) == smoothing <= 0 /\ sq <= smoothing * smoothing

ArgMin_Last(sq) ==
    CHOOSE k \in 1..Len(sq) :
        /\ \A m \in 1..Len(sq) : sq[k] <= sq[m]
        /\ \A m \in (k + 1)..Len(sq) : sq[m] > sq[k]

\* np.argmin(distances): the first index of the minimum (adding the smoothing
\* keeps the order of the distances)
ArgMin(sq) ==
    CHOOSE k \in 1..Len(sq) :
        /\ \A m \in 1..Len(sq) : sq[k] <= sq[m]
        /\ \A m \in 1..(k - 1) : sq[m] > sq[k]

RECURSIVE SeqLcm(_)
SeqLcm(a) == IF a = <<>> THEN 1 ELSE Lcm(Head(a), SeqLcm(Tail(a)))

RECURSIVE SeqSum(_)
SeqSum(a) == IF a = <<>> THEN 0 ELSE Head(a) + SeqSum(Tail(a))

\* float64 holds no number of 2^FloatMaxExp or more: the power below overflows
\* to +infinity
FloatMaxExp == 1024

RECURSIVE FloorLog2(_)
FloorLog2(b) == IF b < 2 THEN 0 ELSE 1 + FloorLog2(b \div 2)

\* b ** e is +infinity in float64, for a distance b and e > 0: b ** e is at
\* least 2 ** (e * FloorLog2(b)). Exact for the exponents drawn here: at most
\* 2, which no distance of these grids overflows, or 2 * FloatMaxExp, which
\* every distance of sqrt(2) or more overflows, rounded up or not
Overflows(b, e) ==
    e > 0 /\ b >= 2 /\ e * b >= FloatMaxExp /\ e * FloorLog2(b) >= FloatMaxExp

\* np.sum(weights * z) / np.sum(weights) where no power overflows: every
\* weight is positive
PlainAverage(dist, z, power) ==
    LET n == Len(dist)
        den == Array([k \in 1..n |->
                   IF power > 0 /\ dist[k] # 1 THEN Pow(dist[k], power) ELSE 1])
        num == Array([k \in 1..n |-> IF power < 0 THEN Pow(dist[k], -power) ELSE 1])
        common == SeqLcm(den)
        w == Array([k \in 1..n |-> num[k] * (common \div den[k])])
    IN  IF n = 0 THEN NaN
        ELSE IF \E k \in 1..n : z[k] = Inf THEN Inf
        ELSE Frac(SeqSum([k \in 1..n |-> w[k] * z[k].n]), SeqSum(w))

\* the same where a power overflows: the weight of that sample is 0.0, and
\* 0.0 / 0.0 and 0.0 * inf are NaN
OverflowedAverage(dist, z, power) ==
    LET n == Len(dist)
        w == Array([k \in 1..n |-> IF Overflows(dist[k], power) THEN 0 ELSE 1])
        rest == {k \in 1..n : w[k] = 1}
    IN  IF rest = {} THEN NaN
        ELSE IF \E k \in 1..n : z[k] = Inf /\ w[k] = 0 THEN NaN
        ELSE PlainAverage([k \in 1..Cardinality(rest) |->
                              dist[CHOOSE m \in rest :
                                     Cardinality({l \in rest : l < m}) = k - 1]],
                          [k \in 1..Cardinality(rest) |->
                              z[CHOOSE m \in rest :
                                     Cardinality({l \in rest : l < m}) = k - 1]],
                          power)

\* np.sum(weights * z) / np.sum(weights) for weights = 1.0 / distances**power,
\* the distances positive; z holds no NaN
WeightedAverage(dist, z, power) ==
    IF \E k \in 1..Len(dist) : Overflows(dist[k], power)
    THEN OverflowedAverage(dist, z, power)
    ELSE PlainAverage(dist, z, power)

\* the body of the two loops of _idw for the cell at (gx, gy): whether it raises
\* (a TypeError: smoothing or power is no number) and the value it stores
IdwCell(x, y, z, gx, gy, power, smoothing) ==
    LET sq == SquaredDistances(x, y, gx, gy)
    IN  IF smoothing.t # "num" THEN [raised |-> TRUE, v |-> NaN]
        ELSE IF \E k \in 1..Len(sq) : Below1em10(sq[k], smoothing.n)
        THEN [raised |-> FALSE, v |-> z[ArgMin(sq)]]
        ELSE IF power.t # "num" THEN [raised |-> TRUE, v |-> NaN]
        ELSE [raised |-> FALSE,
              v |-> WeightedAverage(
                        Array([k \in 1..Len(sq) |-> SqrtTable[sq[k]] + smoothing.n]),
                        z, power.n)]

TypeError == Exc("TypeError", "unsupported operand type", "", {}, "", "")

Rows(M) == Len(M)
Cols(M) == IF M = <<>> THEN 0 ELSE Len(M[1])

IdwBody_ReadsNeighbour(self, x, y, z, XI, YI, ZI, i, j) ==
    LET c == IdwCell(Ints(x), Ints(y), z, XI[i][j], YI[i][j], self.power, self.smoothing)
    IN  [raised |-> c.raised,
         ZI |-> IF c.raised THEN ZI
                ELSE [ZI EXCEPT ![i][j] = IF j > 1 THEN ZI[i][j - 1] ELSE c.v]]

\* lines 161-176, the body of the two loops for the indices (i, j): whether
\* it raises, and the array ZI after it
IdwBody(self, x, y, z, XI, YI, ZI, i, j) ==
    LET c == IdwCell(Ints(x), Ints(y), z, XI[i][j], YI[i][j], self.power, self.smoothing)
    IN  [raised |-> c.raised,
         ZI |-> IF c.raised THEN ZI ELSE [ZI EXCEPT ![i][j] = c.v]]

\* np.zeros_like(XI)
zeros_like(XI) == Array([i \in 1..Rows(XI) |-> [j \in 1..Cols(XI) |-> Int2F(0)]])

\* _idw: the exception it raises (NoExc when it returns) and the grid ZI
Idw(self, x, y, z, XI, YI) ==
    LET xs == Ints(x)
        ys == Ints(y)
        cell == Array([i \in 1..Rows(XI) |-> [j \in 1..Cols(XI) |->
                    IdwCell(xs, ys, z, XI[i][j], YI[i][j],
                            self.power, self.smoothing)]])
    IN  IF \E i \in 1..Rows(XI) : \E j \in 1..Cols(XI) : cell[i][j].raised
        THEN [raised |-> TypeError, ZI |-> <<>>]
        ELSE [raised |-> NoExc, ZI |-> [i \in 1..Rows(XI) |-> [j \in 1..Cols(XI) |->
                                          cell[i][j].v]]]

-----------------------------------------------------------------------------
(* The external libraries and the methods built on them *)

\* the estimate scipy or PyKrige computes at the point (gx, gy): a number this
\* source does not fix
Ext(gx, gy) == [t |-> "ext", n |-> gx, d |-> gy]

\* what scipy returns for the mesh (XI, YI): an array of the shape of XI, with
\* the estimate at (XI[i, j], YI[i, j]) in cell (i, j)
ExtGrid(XI, YI) ==
    Array([i \in 1..Rows(XI) |-> [j \in 1..Cols(XI) |-> Ext(XI[i][j], YI[i][j])]])

\* what PyKrige's execute('grid', xi, yi) returns: len(yi) rows of len(xi)
\* estimates, the estimate at (xi[j], yi[i]) in cell (i, j)
ExecuteGrid(xi, yi) ==
    Array([i \in 1..Len(yi) |-> [j \in 1..Len(xi) |-> Ext(xi[j], yi[i])]])

\* what a call into an external library does: it raises (while fitting or
\* while evaluating, both inside the same try block) or returns a grid
LibOutcomes == {"raises", "returns"}

\* the outcome of a method implementation: the exception it lets out (NoExc when
\* it returns), the grid, the implementations entered in order, and the warnings
\* handed to warnings.warn in order
Outcome(raised, ZI, invoked, warned) ==
    [raised |-> raised, ZI |-> ZI, invoked |-> invoked, warned |-> warned]

\* an exception raised while e is being handled: Python records e as its context
During(exc, e) == [exc EXCEPT !.context = e.cls]

Kriging_SwappedMesh(self, available, x, y, z, xi, yi, lib) ==
    IF lib = "returns"
    THEN Outcome(NoExc, ExecuteGrid(xi, yi), <<"_kriging">>, <<>>)
    ELSE LET e == LibError
             mesh == meshgrid(yi, xi)
             idw == Idw(self, x, y, z, mesh.XI, mesh.YI)
         IN  Outcome(IF idw.raised = NoExc THEN NoExc ELSE During(idw.raised, e),
                     idw.ZI, <<"_kriging", "_idw">>,
                     <<Warning("Kriging failed", e.msg, 224)>>)

\* _kriging
Kriging(self, available, x, y, z, xi, yi, lib) ==
    IF ~available
    THEN Outcome(Exc("RuntimeError", "PyKrige is not available", "", {}, "", ""),
                 <<>>, <<"_kriging">>, <<>>)
    ELSE IF lib = "returns"
    THEN Outcome(NoExc, ExecuteGrid(xi, yi), <<"_kriging">>, <<>>)
    ELSE LET e == LibError
             mesh == meshgrid(xi, yi)
             idw == Idw(self, x, y, z, mesh.XI, mesh.YI)
         IN  Outcome(IF idw.raised = NoExc THEN NoExc ELSE During(idw.raised, e),
                     idw.ZI, <<"_kriging", "_idw">>,
                     <<Warning("Kriging failed", e.msg, 224)>>)

\* function_map.get(self.method, 'multiquadric')
RbfFunction(method) ==
    CASE method = "rbf_multiquadric" -> "multiquadric"
      [] method = "rbf_gaussian" -> "gaussian"
      [] method = "rbf_thin_plate" -> "thin_plate"
      [] method = "rbf_linear" -> "linear"
      [] OTHER -> "multiquadric"

Rbf_Retries(self, x, y, z, XI, YI, lib) ==
    IF lib = "returns"
    THEN Outcome(NoExc, ExtGrid(XI, YI), <<"_rbf">>, <<>>)
    ELSE LET e == LibError
             idw == Idw(self, x, y, z, XI, YI)
         IN  Outcome(IF idw.raised = NoExc THEN NoExc ELSE During(idw.raised, e),
                     idw.ZI, <<"_rbf", "_rbf", "_idw">>,
                     <<Warning("RBF interpolation failed", e.msg, 263)>>)

\* _rbf
Rbf(self, x, y, z, XI, YI, lib) ==
    IF lib = "returns"
    THEN Outcome(NoExc, ExtGrid(XI, YI), <<"_rbf">>, <<>>)
    ELSE LET e == LibError
             idw == Idw(self, x, y, z, XI, YI)
         IN  Outcome(IF idw.raised = NoExc THEN NoExc ELSE During(idw.raised, e),
                     idw.ZI, <<"_rbf", "_idw">>,
                     <<Warning("RBF interpolation failed", e.msg, 263)>>)

\* griddata((x, y), z, (XI, YI), method=self.method), called with no handler
Griddata(self, x, y, z, XI, YI, lib) ==
    IF lib = "returns"
    THEN Outcome(NoExc, ExtGrid(XI, YI), <<"griddata">>, <<>>)
    ELSE Outcome(LibError, <<>>, <<"griddata">>, <<>>)

-----------------------------------------------------------------------------
(* interpolate *)

\* what interpolate hands back: the exception it lets out (NoExc when it
\* returns), the grid (XI, YI, ZI) with its axes, the cleaned arrays, the
\* implementations entered and the warnings issued
Result(raised, g, ZI, x, y, z, invoked, warned) ==
    [raised |-> raised, xi |-> g.xi, yi |-> g.yi, XI |-> g.XI, YI |-> g.YI,
     ZI |-> ZI, x |-> x, y |-> y, z |-> z, invoked |-> invoked, warned |-> warned]

NoGrid == [xi |-> <<>>, yi |-> <<>>, XI |-> <<>>, YI |-> <<>>]

\* lines 103-122: the axes and the mesh
Grid(x, y, grid_resolution, bounds) ==
    LET b == ComputeBounds(Ints(x), Ints(y), bounds)
        xi == linspace(b.min_x, b.max_x, grid_resolution)
        yi == linspace(b.min_y, b.max_y, grid_resolution)
        mesh == meshgrid(xi, yi)
    IN  [xi |-> xi, yi |-> yi, XI |-> mesh.XI, YI |-> mesh.YI]

\* lines 124-134: the dispatch on self.method
Dispatch(self, available, x, y, z, g, lib) ==
    IF self.method = "idw"
    THEN LET idw == Idw(self, x, y, z, g.XI, g.YI)
         IN  Outcome(idw.raised, idw.ZI, <<"_idw">>, <<>>)
    ELSE IF StartsWithKriging(self.method)
    THEN Kriging(self, available, x, y, z, g.xi, g.yi, lib)
    ELSE IF StartsWithRbf(self.method)
    THEN Rbf(self, x, y, z, g.XI, g.YI, lib)
    ELSE IF self.method \in {"linear", "cubic", "nearest"}
    THEN Griddata(self, x, y, z, g.XI, g.YI, lib)
    ELSE Outcome(Exc("ValueError", "Unknown interpolation method", self.method,
                     {}, "", ""), <<>>, <<>>, <<>>)

\* interpolate(x, y, z, grid_resolution, bounds), lib what the external library
\* does if the method calls it
Interpolate(self, available, x, y, z, grid_resolution, bounds, lib) ==
    IF Len(x) < 3
    THEN Result(Exc("ValueError", "Need at least 3 points for interpolation",
                    "", {}, "", ""), NoGrid, <<>>, <<>>, <<>>, <<>>, <<>>, <<>>)
    ELSE LET valid_mask == ValidMask(x, y, z)
             cx == Compress(x, valid_mask)
             cy == Compress(y, valid_mask)
             cz == Compress(z, valid_mask)
         IN  IF ~bounds.given /\ cx = <<>>
             THEN \* x.min() of an empty array
                  Result(Exc("ValueError", "zero-size array to reduction operation",
                             "", {}, "", ""), NoGrid, <<>>, cx, cy, cz, <<>>, <<>>)
             ELSE LET g == Grid(cx, cy, grid_resolution, bounds)
                      out == Dispatch(self, available, cx, cy, cz, g, lib)
                  IN  Result(out.raised, g, out.ZI, cx, cy, cz,
                             out.invoked, out.warned)

\* what interpolate leaves behind in the objects it was handed: the engine and
\* the caller's three arrays. It assigns to no attribute of self, and
\* x = x[valid_mask] binds the local name to a new array
AfterCall_CleansInPlace(self, x, y, z) ==
    LET valid_mask == ValidMask(x, y, z)
    IN  [self |-> self, x |-> Compress(x, valid_mask),
         y |-> Compress(y, valid_mask), z |-> Compress(z, valid_mask)]

AfterCall(self, x, y, z) == [self |-> self, x |-> x, y |-> y, z |-> z]

-----------------------------------------------------------------------------
(* mask_extrapolation_regions *)

\* a sample point (x, y)
Point(px, py) == [x |-> px, y |-> py]

\* cdist(grid_points, sample_points) for one grid point, squared
SquaredCdist(gx, gy, sample_points) ==
    Array([k \in 1..Len(sample_points) |->
        (sample_points[k].x - gx) * (sample_points[k].x - gx)
        + (sample_points[k].y - gy) * (sample_points[k].y - gy)])

LessThanMax_Reversed(sq, max_distance) ==
    max_distance < 0 \/ sq > max_distance * max_distance

\* min_distances < max_distance for the square sq of a distance, decided
\* exactly: sqrt(sq) < max_distance
LessThanMax(sq, max_distance) ==
    max_distance > 0 /\ sq < max_distance * max_distance

Mask_Increments(XI, YI, ZI, sample_points, max_distance) ==
    IF sample_points = <<>>
    THEN [raised |-> Exc("ValueError", "zero-size array to reduction operation",
                         "", {}, "", ""),
          ZI_masked |-> <<>>]
    ELSE [raised |-> NoExc,
          ZI_masked |->
            Array([i \in 1..Rows(XI) |-> [j \in 1..Cols(XI) |->
               IF LessThanMax(SeqMin(SquaredCdist(XI[i][j], YI[i][j], sample_points)),
                              max_distance)
               THEN IF IsFinite(ZI[i][j]) THEN Frac(ZI[i][j].n + ZI[i][j].d, ZI[i][j].d)
                    ELSE ZI[i][j]
               ELSE NaN]])]

\* mask_extrapolation_regions: the exception it raises (NoExc when it returns)
\* and the new array ZI_masked; distances.min(axis=1) raises on no samples
Mask(XI, YI, ZI, sample_points, max_distance) ==
    IF sample_points = <<>>
    THEN [raised |-> Exc("ValueError", "zero-size array to reduction operation",
                         "", {}, "", ""),
          ZI_masked |-> <<>>]
    ELSE [raised |-> NoExc,
          ZI_masked |->
            Array([i \in 1..Rows(XI) |-> [j \in 1..Cols(XI) |->
               IF LessThanMax(SeqMin(SquaredCdist(XI[i][j], YI[i][j], sample_points)),
                              max_distance)
               THEN ZI[i][j]
               ELSE NaN]])]

-----------------------------------------------------------------------------
(* warnings.warn *)

\* warnings.warn_explicit: a warning already in the registry is dropped, the
\* "ignore" action drops it, and the "default" action shows it and enters it in
\* the registry, so that the same text from the same line is shown once
Warn(action, registry, w) ==
    IF w \in registry THEN [shown |-> <<>>, registry |-> registry]
    ELSE IF action = "ignore" THEN [shown |-> <<>>, registry |-> registry]
    ELSE [shown |-> <<w>>, registry |-> registry \cup {w}]

RECURSIVE WarnAll(_, _, _)
WarnAll(action, registry, ws) ==
    IF ws = <<>> THEN [shown |-> <<>>, registry |-> registry]
    ELSE LET first == Warn(action, registry, Head(ws))
             rest == WarnAll(action, first.registry, Tail(ws))
         IN  [shown |-> first.shown \o rest.shown, registry |-> rest.registry]

\* interpolation.py:18, issued by the import when PyKrige is missing
ImportWarning == Warning("PyKrige not available", "", 18)

-----------------------------------------------------------------------------
(* Inputs *)

\* the sample rows (x, y, z) a caller may pass
Candidates ==
    << <<Int2F(0), Int2F(0), Int2F(1)>>,
       <<NaN, Int2F(20), Int2F(3)>>,
       <<Int2F(20), Int2F(0), Int2F(2)>>,
       <<Int2F(0), Int2F(20), Inf>> >>

\* two tables with two samples of different values at one place, in either order
TieTables ==
    { << <<Int2F(0), Int2F(0), Int2F(1)>>, <<Int2F(0), Int2F(0), Int2F(5)>>,
         <<Int2F(20), Int2F(0), Int2F(2)>> >>,
      << <<Int2F(0), Int2F(0), Int2F(5)>>, <<Int2F(0), Int2F(0), Int2F(1)>>,
         <<Int2F(20), Int2F(0), Int2F(2)>> >> }

\* the sample tables a caller may pass: 2 to MaxLen rows, repetitions allowed,
\* one table for each multiset of rows, and the tables with a tie
SampleSets ==
    UNION {{[i \in 1..n |-> Candidates[pick[i]]] :
              pick \in {p \in [1..n -> 1..Len(Candidates)] :
                           \A i \in 1..(n - 1) : p[i] <= p[i + 1]}} :
           n \in 2..MaxLen}
    \cup TieTables

Column(rows, c) == Array([i \in 1..Len(rows) |-> rows[i][c]])

KwargsSet ==
    { NoKwargs,
      Kwargs(Int2F(1), Int2F(1), "", Absent),
      Kwargs(Int2F(0), Absent, "", Absent),
      Kwargs(Absent, Int2F(-1), "", Absent),
      Kwargs(NotANumber, Absent, "", Absent) }

Resolutions == {1, 2, 3}

BoundsSet == {NoBounds, Bounds(0, 0, 20, 20)}

\* the grids a caller may hand to mask_extrapolation_regions: the mesh over
\* [0, 20] x [0, 20] at each resolution, the value of cell (i, j) telling the
\* cells apart
MaskGrids ==
    {LET mesh == meshgrid(linspace(0, 20, res), linspace(0, 20, res))
     IN  [XI |-> mesh.XI, YI |-> mesh.YI,
          ZI |-> Array([i \in 1..Rows(mesh.XI) |-> [j \in 1..Cols(mesh.XI) |->
                           Int2F(10 * i + j)]])] :
       res \in Resolutions}

\* sample_points: up to two of three points
SamplePoints ==
    LET pts == {Point(0, 0), Point(20, 0), Point(10, 10)}
    IN  {<<>>} \cup {<<p>> : p \in pts} \cup {<<p, q>> : p \in pts, q \in pts}

\* max_distance, in the quanta of the coordinates
MaxDistances == {0, 10, 20, 21}

-----------------------------------------------------------------------------
(* The callers outside the engine, before their first call *)

\* no frame of _idw
NoLoop == [pc |-> "idle"]

\* no call of compute_interpolation
NoApp == [made |-> FALSE]

\* no call of get_tracts
NoGeo == [made |-> FALSE]

\* the path of the cache file names no file; mtime counts the writes of the file
NoFile == [exists |-> FALSE, content |-> <<>>, mtime |-> 0]

RestIdle ==
    /\ maskLog = <<>>
    /\ loop = NoLoop
    /\ memo = <<>>
    /\ app = NoApp
    /\ disk = NoFile
    /\ geo = NoGeo

-----------------------------------------------------------------------------
(* The state machine *)

NoCtor == [method |-> "", kwargs |-> NoKwargs, raised |-> NoExc]

NoCall ==
    [made |-> FALSE, x |-> <<>>, y |-> <<>>, z |-> <<>>, grid_resolution |-> 0,
     bounds |-> NoBounds, lib |-> "",
     r |-> Result(NoExc, NoGrid, <<>>, <<>>, <<>>, <<>>, <<>>, <<>>),
     shown |-> <<>>,
     after |-> [x |-> <<>>, y |-> <<>>, z |-> <<>>]]

NoMask ==
    [made |-> FALSE, XI |-> <<>>, YI |-> <<>>, ZI |-> <<>>, sample_points |-> <<>>,
     max_distance |-> 0, raised |-> NoExc, ZI_masked |-> <<>>]

\* the import of src.interpolation, after app.py:11 (filterAction "ignore") or
\* on its own (the "default" action)
Init ==
    /\ KRIGING_AVAILABLE \in BOOLEAN
    /\ METHODS = ClassBody(KRIGING_AVAILABLE)
    /\ filterAction \in {"default", "ignore"}
    /\ onceRegistry =
         IF KRIGING_AVAILABLE THEN {}
         ELSE Warn(filterAction, {}, ImportWarning).registry
    /\ pc = "idle"
    /\ engine = NoEngine
    /\ ctor = NoCtor
    /\ call = NoCall
    /\ masked = NoMask
    /\ engines = <<>>
    /\ frames = <<>>
    /\ RestIdle

Construct_RegistersMethod(method, kwargs) ==
    /\ pc = "idle"
    /\ LET registry == Update(METHODS, [m \in {method} |-> method])
           new == InitEngine(registry, KRIGING_AVAILABLE, method, kwargs)
       IN  /\ METHODS' = registry
           /\ ctor' = [method |-> method, kwargs |-> kwargs, raised |-> new.raised]
           /\ engine' = IF new.raised = NoExc THEN new.self ELSE engine
           /\ pc' = IF new.raised = NoExc THEN "ready" ELSE pc
    /\ UNCHANGED <<KRIGING_AVAILABLE, filterAction, onceRegistry, call, masked,
                   concVars, restVars>>

\* engine = InterpolationEngine(method=method, **kwargs)
Construct(method, kwargs) ==
    /\ pc = "idle"
    /\ LET new == InitEngine(METHODS, KRIGING_AVAILABLE, method, kwargs)
       IN  /\ ctor' = [method |-> method, kwargs |-> kwargs, raised |-> new.raised]
           /\ engine' = IF new.raised = NoExc THEN new.self ELSE engine
           /\ pc' = IF new.raised = NoExc THEN "ready" ELSE pc
    /\ UNCHANGED <<KRIGING_AVAILABLE, METHODS, filterAction, onceRegistry, call, masked,
                   concVars, restVars>>

\* engine.interpolate(x, y, z, grid_resolution, bounds)
CallInterpolate(rows, grid_resolution, bounds, lib) ==
    /\ pc = "ready"
    /\ LET x == Column(rows, 1)
           y == Column(rows, 2)
           z == Column(rows, 3)
           r == Interpolate(engine, KRIGING_AVAILABLE, x, y, z,
                            grid_resolution, bounds, lib)
           w == WarnAll(filterAction, onceRegistry, r.warned)
           after == AfterCall(engine, x, y, z)
       IN  /\ call' = [made |-> TRUE, x |-> x, y |-> y, z |-> z,
                       grid_resolution |-> grid_resolution, bounds |-> bounds,
                       lib |-> lib, r |-> r, shown |-> w.shown,
                       after |-> [x |-> after.x, y |-> after.y, z |-> after.z]]
           /\ engine' = after.self
           /\ onceRegistry' = w.registry
    /\ pc' = "returned"
    /\ UNCHANGED <<KRIGING_AVAILABLE, METHODS, filterAction, ctor, masked, concVars, restVars>>

\* the caller has taken the result and keeps the engine for another call
Continue ==
    /\ pc = "returned"
    /\ pc' = "ready"
    /\ call' = NoCall
    /\ UNCHANGED <<KRIGING_AVAILABLE, METHODS, filterAction, onceRegistry, engine, ctor,
                   masked, concVars, restVars>>

\* ZI_masked = mask_extrapolation_regions(XI, YI, ZI, sample_points, max_distance)
CallMask(g, sample_points, max_distance) ==
    /\ pc = "idle"
    /\ LET m == Mask(g.XI, g.YI, g.ZI, sample_points, max_distance)
       IN  masked' = [made |-> TRUE, XI |-> g.XI, YI |-> g.YI, ZI |-> g.ZI,
                      sample_points |-> sample_points, max_distance |-> max_distance,
                      raised |-> m.raised, ZI_masked |-> m.ZI_masked]
    /\ pc' = "masked"
    /\ UNCHANGED <<KRIGING_AVAILABLE, METHODS, filterAction, onceRegistry, engine, ctor,
                   call, concVars, restVars>>

\* the engine and the results go out of scope (compute_interpolation returns)
Release ==
    /\ pc \in {"ready", "returned", "masked"}
    /\ pc' = "idle"
    /\ engine' = NoEngine
    /\ ctor' = NoCtor
    /\ call' = NoCall
    /\ masked' = NoMask
    /\ UNCHANGED <<KRIGING_AVAILABLE, METHODS, filterAction, onceRegistry, concVars, restVars>>

\* the caller's choice of arguments, and what the external library does
ConstructAny ==
    /\ pc = "idle"
    /\ \E method \in MethodIds, kwargs \in KwargsSet : Construct(method, kwargs)

CallAny ==
    /\ pc = "ready"
    /\ \E rows \in SampleSets, grid_resolution \in Resolutions, bounds \in BoundsSet,
          lib \in IF engine.method = "idw" THEN {"returns"} ELSE LibOutcomes :
            CallInterpolate(rows, grid_resolution, bounds, lib)

MaskAny ==
    /\ pc = "idle"
    /\ \E g \in MaskGrids, sample_points \in SamplePoints, max_distance \in MaxDistances :
            CallMask(g, sample_points, max_distance)

Next ==
    \/ ConstructAny
    \/ CallAny
    \/ Continue
    \/ Release
    \/ MaskAny

Spec == Init /\ [][Next]_vars

-----------------------------------------------------------------------------
(* Concurrent callers: interpolate, one block of statements at a time *)

Threads == {1, 2}

\* a thread that is not inside interpolate
IdleFrame ==
    [pc |-> "idle", self |-> 0, self0 |-> NoEngine,
     args |-> [x |-> <<>>, y |-> <<>>, z |-> <<>>],
     x |-> <<>>, y |-> <<>>, z |-> <<>>, grid_resolution |-> 0, bounds |-> NoBounds,
     lib |-> "", g |-> NoGrid, mesh |-> [XI |-> <<>>, YI |-> <<>>], entry |-> "",
     e |-> NoExc, r |-> [raised |-> NoExc, XI |-> <<>>, YI |-> <<>>, ZI |-> <<>>],
     shown |-> <<>>]

\* the frame of a call that has ended: what it raised or returned
Done(f, raised, ZI) ==
    [f EXCEPT !.pc = "done",
              !.r = [raised |-> raised, XI |-> f.g.XI, YI |-> f.g.YI, ZI |-> ZI]]

\* the two engines the threads share: one of a method that can fall back,
\* constructed with power 1 and smoothing 1, and one with the defaults
EnginePairs ==
    {<<InitEngine(METHODS, KRIGING_AVAILABLE, a, Kwargs(Int2F(1), Int2F(1), "", Absent)).self,
       InitEngine(METHODS, KRIGING_AVAILABLE, b, NoKwargs).self>> :
        a \in {"rbf_linear", "kriging_ordinary"} \cap DOMAIN METHODS,
        b \in {"idw", "linear"}}

\* the sample tables the threads pass
ConcSamples ==
    { <<Candidates[1], Candidates[3]>>,
      <<Candidates[1], Candidates[2], Candidates[3]>>,
      <<Candidates[1], Candidates[3], Candidates[4]>> }

\* the import, two engines constructed, and no thread inside interpolate yet
ConcInit ==
    /\ KRIGING_AVAILABLE \in BOOLEAN
    /\ METHODS = ClassBody(KRIGING_AVAILABLE)
    /\ filterAction \in {"default", "ignore"}
    /\ onceRegistry =
         IF KRIGING_AVAILABLE THEN {}
         ELSE Warn(filterAction, {}, ImportWarning).registry
    /\ pc = "idle"
    /\ engine = NoEngine
    /\ ctor = NoCtor
    /\ call = NoCall
    /\ masked = NoMask
    /\ engines \in EnginePairs
    /\ frames = [t \in Threads |-> IdleFrame]
    /\ RestIdle

\* thread t enters engines[self].interpolate(x, y, z, grid_resolution, bounds)
T_Call(t, self, rows, grid_resolution, bounds, lib) ==
    /\ frames[t].pc = "idle"
    /\ LET x == Column(rows, 1)
           y == Column(rows, 2)
           z == Column(rows, 3)
       IN  frames' = [frames EXCEPT ![t] =
                [IdleFrame EXCEPT !.pc = "line94", !.self = self,
                                  !.self0 = engines[self],
                                  !.args = [x |-> x, y |-> y, z |-> z],
                                  !.x = x, !.y = y, !.z = z,
                                  !.grid_resolution = grid_resolution,
                                  !.bounds = bounds, !.lib = lib]]
    /\ UNCHANGED <<KRIGING_AVAILABLE, METHODS, filterAction, onceRegistry, seqVars, restVars,
                   engines>>

\* lines 94-95
T_Check(t) ==
    /\ frames[t].pc = "line94"
    /\ LET f == frames[t]
       IN  frames' = [frames EXCEPT ![t] =
                IF Len(f.x) < 3
                THEN Done(f, Exc("ValueError", "Need at least 3 points for interpolation",
                                 "", {}, "", ""), <<>>)
                ELSE [f EXCEPT !.pc = "line98"]]
    /\ UNCHANGED <<KRIGING_AVAILABLE, METHODS, filterAction, onceRegistry, seqVars, restVars,
                   engines>>

\* lines 98-101: the local names x, y, z are bound to the cleaned arrays
T_Clean(t) ==
    /\ frames[t].pc = "line98"
    /\ LET f == frames[t]
           valid_mask == ValidMask(f.x, f.y, f.z)
       IN  frames' = [frames EXCEPT ![t] =
                [f EXCEPT !.pc = "line104",
                          !.x = Compress(f.x, valid_mask),
                          !.y = Compress(f.y, valid_mask),
                          !.z = Compress(f.z, valid_mask)]]
    /\ UNCHANGED <<KRIGING_AVAILABLE, METHODS, filterAction, onceRegistry, seqVars, restVars,
                   engines>>

\* lines 104-122
T_Grid(t) ==
    /\ frames[t].pc = "line104"
    /\ LET f == frames[t]
       IN  frames' = [frames EXCEPT ![t] =
                IF ~f.bounds.given /\ f.x = <<>>
                THEN Done(f, Exc("ValueError", "zero-size array to reduction operation",
                                 "", {}, "", ""), <<>>)
                ELSE LET g == Grid(f.x, f.y, f.grid_resolution, f.bounds)
                     IN  [f EXCEPT !.pc = "line125", !.g = g,
                                   !.mesh = [XI |-> g.XI, YI |-> g.YI]]]
    /\ UNCHANGED <<KRIGING_AVAILABLE, METHODS, filterAction, onceRegistry, seqVars, restVars,
                   engines>>

\* lines 125-134 up to the library call of the method: self.method is read now
T_Dispatch(t) ==
    /\ frames[t].pc = "line125"
    /\ LET f == frames[t]
           method == engines[f.self].method
       IN  frames' = [frames EXCEPT ![t] =
                IF method = "idw" THEN [f EXCEPT !.pc = "_idw", !.entry = "_idw"]
                ELSE IF StartsWithKriging(method) /\ ~KRIGING_AVAILABLE
                THEN Done(f, Exc("RuntimeError", "PyKrige is not available",
                                 "", {}, "", ""), <<>>)
                ELSE IF StartsWithKriging(method) \/ StartsWithRbf(method)
                THEN IF f.lib = "returns"
                     THEN Done(f, NoExc, IF StartsWithKriging(method)
                                         THEN ExecuteGrid(f.g.xi, f.g.yi)
                                         ELSE ExtGrid(f.g.XI, f.g.YI))
                     ELSE [f EXCEPT !.pc = "except", !.e = LibError,
                                    !.entry = IF StartsWithKriging(method)
                                              THEN "_kriging" ELSE "_rbf"]
                ELSE IF method \in {"linear", "cubic", "nearest"}
                THEN IF f.lib = "returns"
                     THEN Done(f, NoExc, ExtGrid(f.g.XI, f.g.YI))
                     ELSE Done(f, LibError, <<>>)
                ELSE Done(f, Exc("ValueError", "Unknown interpolation method", method,
                                 {}, "", ""), <<>>)]
    /\ UNCHANGED <<KRIGING_AVAILABLE, METHODS, filterAction, onceRegistry, seqVars, restVars,
                   engines>>

T_Warn_SwappedMesh(t) ==
    /\ frames[t].pc = "except"
    /\ LET f == frames[t]
           w == Warn(filterAction, onceRegistry,
                     IF f.entry = "_kriging" THEN Warning("Kriging failed", f.e.msg, 224)
                     ELSE Warning("RBF interpolation failed", f.e.msg, 263))
       IN  /\ onceRegistry' = w.registry
           /\ frames' = [frames EXCEPT ![t] =
                [f EXCEPT !.pc = "_idw", !.shown = w.shown,
                          !.mesh = IF f.entry = "_kriging" THEN meshgrid(f.g.yi, f.g.xi)
                                   ELSE f.mesh]]
    /\ UNCHANGED <<KRIGING_AVAILABLE, METHODS, filterAction, seqVars, restVars, engines>>

T_Warn_SwitchesEngine(t) ==
    /\ frames[t].pc = "except"
    /\ LET f == frames[t]
           w == Warn(filterAction, onceRegistry,
                     IF f.entry = "_kriging" THEN Warning("Kriging failed", f.e.msg, 224)
                     ELSE Warning("RBF interpolation failed", f.e.msg, 263))
       IN  /\ onceRegistry' = w.registry
           /\ engines' = [engines EXCEPT ![f.self].method = "idw"]
           /\ frames' = [frames EXCEPT ![t] =
                [f EXCEPT !.pc = "_idw", !.shown = w.shown,
                          !.mesh = IF f.entry = "_kriging" THEN meshgrid(f.g.xi, f.g.yi)
                                   ELSE f.mesh]]
    /\ UNCHANGED <<KRIGING_AVAILABLE, METHODS, filterAction, seqVars, restVars>>

\* the except blocks, lines 222-225 and 261-263: the warning goes through the
\* registry of the module, which every thread shares
T_Warn(t) ==
    /\ frames[t].pc = "except"
    /\ LET f == frames[t]
           w == Warn(filterAction, onceRegistry,
                     IF f.entry = "_kriging" THEN Warning("Kriging failed", f.e.msg, 224)
                     ELSE Warning("RBF interpolation failed", f.e.msg, 263))
       IN  /\ onceRegistry' = w.registry
           /\ frames' = [frames EXCEPT ![t] =
                [f EXCEPT !.pc = "_idw", !.shown = w.shown,
                          !.mesh = IF f.entry = "_kriging" THEN meshgrid(f.g.xi, f.g.yi)
                                   ELSE f.mesh]]
    /\ UNCHANGED <<KRIGING_AVAILABLE, METHODS, filterAction, seqVars, restVars, engines>>

\* _idw, lines 157-178 (called at 126, 226 or 264): self.power and
\* self.smoothing are read now, ZI is an array of this frame
T_Idw(t) ==
    /\ frames[t].pc = "_idw"
    /\ LET f == frames[t]
           idw == Idw(engines[f.self], f.x, f.y, f.z, f.mesh.XI, f.mesh.YI)
       IN  frames' = [frames EXCEPT ![t] =
                Done(f, IF idw.raised = NoExc \/ f.e = NoExc THEN idw.raised
                        ELSE During(idw.raised, f.e),
                     idw.ZI)]
    /\ UNCHANGED <<KRIGING_AVAILABLE, METHODS, filterAction, onceRegistry, seqVars, restVars,
                   engines>>

\* the caller of thread t has taken the result
T_Return(t) ==
    /\ frames[t].pc = "done"
    /\ frames' = [frames EXCEPT ![t] = IdleFrame]
    /\ UNCHANGED <<KRIGING_AVAILABLE, METHODS, filterAction, onceRegistry, seqVars, restVars,
                   engines>>

T_CallAny ==
    \E t \in Threads, self \in 1..2, rows \in ConcSamples, bounds \in BoundsSet :
        \E lib \in IF engines[self].method = "idw" THEN {"returns"} ELSE LibOutcomes :
            T_Call(t, self, rows, 2, bounds, lib)

ConcNext ==
    \/ T_CallAny
    \/ \E t \in Threads : T_Check(t)
    \/ \E t \in Threads : T_Clean(t)
    \/ \E t \in Threads : T_Grid(t)
    \/ \E t \in Threads : T_Dispatch(t)
    \/ \E t \in Threads : T_Warn(t)
    \/ \E t \in Threads : T_Idw(t)
    \/ \E t \in Threads : T_Return(t)

ConcSpec == ConcInit /\ [][ConcNext]_vars


-----------------------------------------------------------------------------
(* mask_extrapolation_regions, called again on its own output or with another
   threshold *)

\* most calls made on one grid
MaxMasks == 2

\* the import of src.interpolation, and no caller at work
Imported ==
    /\ KRIGING_AVAILABLE \in BOOLEAN
    /\ METHODS = ClassBody(KRIGING_AVAILABLE)
    /\ filterAction \in {"default", "ignore"}
    /\ onceRegistry =
         IF KRIGING_AVAILABLE THEN {}
         ELSE Warn(filterAction, {}, ImportWarning).registry
    /\ pc = "idle"
    /\ engine = NoEngine
    /\ ctor = NoCtor
    /\ call = NoCall
    /\ masked = NoMask
    /\ engines = <<>>
    /\ frames = <<>>

\* the grids handed to the mask: those of MaskGrids and one that holds a NaN
MaskInputs ==
    MaskGrids \cup
    {LET mesh == meshgrid(linspace(0, 20, 2), linspace(0, 20, 2))
     IN  [XI |-> mesh.XI, YI |-> mesh.YI,
          ZI |-> << <<NaN, Int2F(12)>>, <<Int2F(21), Int2F(22)>> >>]}

\* max_distance: the values of MaxDistances and a negative one
Thresholds == MaxDistances \cup {-1}

AfterMask_InPlace(XI, YI, ZI, sample_points, m) ==
    [XI |-> XI, YI |-> YI,
     ZI |-> IF m.raised = NoExc THEN m.ZI_masked ELSE ZI,
     sample_points |-> sample_points, out |-> "ZI"]

\* what a mask call leaves in the arrays it was handed, and the array that
\* holds its result: flatten(), column_stack, cdist and np.where each build a
\* new array, and nothing is assigned into XI, YI, ZI or sample_points
AfterMask(XI, YI, ZI, sample_points, m) ==
    [XI |-> XI, YI |-> YI, ZI |-> ZI, sample_points |-> sample_points, out |-> "new"]

\* one call mask_extrapolation_regions(XI, YI, ZI, sample_points, max_distance)
MaskCall(XI, YI, ZI, sample_points, max_distance) ==
    LET m == Mask(XI, YI, ZI, sample_points, max_distance)
    IN  [XI |-> XI, YI |-> YI, ZI |-> ZI, sample_points |-> sample_points,
         max_distance |-> max_distance, raised |-> m.raised,
         ZI_masked |-> m.ZI_masked,
         after |-> AfterMask(XI, YI, ZI, sample_points, m)]

MaskInit ==
    /\ Imported
    /\ RestIdle

\* the first call on a grid
MS_Mask(g, sample_points, max_distance) ==
    /\ maskLog = <<>>
    /\ maskLog' = <<MaskCall(g.XI, g.YI, g.ZI, sample_points, max_distance)>>
    /\ UNCHANGED <<importVars, seqVars, concVars, loop, memo, app, disk, geo>>

\* the grid the last call returned is masked again, with the same samples
MS_Remask(max_distance) ==
    /\ maskLog # <<>>
    /\ Len(maskLog) < MaxMasks
    /\ maskLog[Len(maskLog)].raised = NoExc
    /\ LET last == maskLog[Len(maskLog)]
       IN  maskLog' = Append(maskLog,
                MaskCall(last.after.XI, last.after.YI, last.ZI_masked,
                         last.after.sample_points, max_distance))
    /\ UNCHANGED <<importVars, seqVars, concVars, loop, memo, app, disk, geo>>

\* the grid of the first call is masked again, with the same samples
MS_Rethreshold(max_distance) ==
    /\ maskLog # <<>>
    /\ Len(maskLog) < MaxMasks
    /\ LET last == maskLog[Len(maskLog)]
       IN  maskLog' = Append(maskLog,
                MaskCall(last.after.XI, last.after.YI, maskLog[1].after.ZI,
                         last.after.sample_points, max_distance))
    /\ UNCHANGED <<importVars, seqVars, concVars, loop, memo, app, disk, geo>>

\* the caller drops the grids
MS_Forget ==
    /\ maskLog # <<>>
    /\ maskLog' = <<>>
    /\ UNCHANGED <<importVars, seqVars, concVars, loop, memo, app, disk, geo>>

MS_MaskAny ==
    /\ maskLog = <<>>
    /\ \E g \in MaskInputs, sample_points \in SamplePoints, max_distance \in Thresholds :
            MS_Mask(g, sample_points, max_distance)

MaskNext ==
    \/ MS_MaskAny
    \/ \E max_distance \in Thresholds : MS_Remask(max_distance)
    \/ \E max_distance \in Thresholds : MS_Rethreshold(max_distance)
    \/ MS_Forget

MaskSpec == MaskInit /\ [][MaskNext]_vars

-----------------------------------------------------------------------------
(* _idw, one cell at a time *)

\* the sample tables handed to _idw: three or four finite rows
IdwSamples ==
    { << <<Int2F(0), Int2F(0), Int2F(1)>>, <<Int2F(20), Int2F(0), Int2F(2)>>,
         <<Int2F(0), Int2F(20), Int2F(3)>> >>,
      << <<Int2F(0), Int2F(0), Int2F(1)>>, <<Int2F(20), Int2F(0), Int2F(2)>>,
         <<Int2F(0), Int2F(20), Int2F(3)>>, <<Int2F(20), Int2F(20), Int2F(4)>> >> }
    \cup TieTables

\* power > 0 and smoothing >= 0
IdwKwargs ==
    {Kwargs(power, smoothing, "", Absent) :
        power \in {Int2F(1), Int2F(2), Int2F(2 * FloatMaxExp)},
        smoothing \in {Int2F(0), Int2F(1)}}

\* the resolutions of the grids evaluated cell by cell
IdwResolutions == {1, 2}

IdwInit ==
    /\ Imported
    /\ RestIdle

\* interpolate on an idw engine up to line 159: the arrays are cleaned, the
\* grid is drawn, _idw is entered and ZI allocated
Idw_Enter(kwargs, rows, grid_resolution, bounds) ==
    /\ loop.pc = "idle"
    /\ LET self == InitEngine(METHODS, KRIGING_AVAILABLE, "idw", kwargs).self
           x == Column(rows, 1)
           y == Column(rows, 2)
           z == Column(rows, 3)
           g == Grid(x, y, grid_resolution, bounds)
       IN  loop' = [pc |-> "loop", self |-> self, x |-> x, y |-> y, z |-> z,
                    XI |-> g.XI, YI |-> g.YI, ZI |-> zeros_like(g.XI),
                    i |-> 1, j |-> 1, raised |-> NoExc]
    /\ UNCHANGED <<importVars, seqVars, concVars, maskLog, memo, app, disk, geo>>

\* one turn of the inner loop, lines 160-176, and the return at line 178
Idw_Step ==
    /\ loop.pc = "loop"
    /\ LET b == IdwBody(loop.self, loop.x, loop.y, loop.z, loop.XI, loop.YI, loop.ZI,
                        loop.i, loop.j)
           last == loop.i = Rows(loop.XI) /\ loop.j = Cols(loop.XI)
       IN  loop' =
             IF b.raised THEN [loop EXCEPT !.pc = "raised", !.raised = TypeError]
             ELSE [loop EXCEPT !.ZI = b.ZI,
                               !.pc = IF last THEN "returned" ELSE "loop",
                               !.i = IF last \/ loop.j < Cols(loop.XI)
                                     THEN loop.i ELSE loop.i + 1,
                               !.j = IF last THEN loop.j
                                     ELSE IF loop.j < Cols(loop.XI)
                                     THEN loop.j + 1 ELSE 1]
    /\ UNCHANGED <<importVars, seqVars, concVars, maskLog, memo, app, disk, geo>>

\* the caller has taken ZI
Idw_Leave ==
    /\ loop.pc \in {"returned", "raised"}
    /\ loop' = NoLoop
    /\ UNCHANGED <<importVars, seqVars, concVars, maskLog, memo, app, disk, geo>>

Idw_EnterAny ==
    /\ loop.pc = "idle"
    /\ \E kwargs \in IdwKwargs, rows \in IdwSamples, grid_resolution \in IdwResolutions,
          bounds \in BoundsSet :
            Idw_Enter(kwargs, rows, grid_resolution, bounds)

IdwNext ==
    \/ Idw_EnterAny
    \/ Idw_Step
    \/ Idw_Leave

IdwSpec == IdwInit /\ [][IdwNext]_vars

-----------------------------------------------------------------------------
(* app.py: compute_interpolation under st.cache_data *)

\* most entries the cache of compute_interpolation holds
MaxEntries == 2

\* a row of the merged table _gdf; lat and lon are NaN where the left merge of
\* data_loader.py:64-69 found no geometry for the tract
Measurement(Compound, City, Round, CensusTract, lon, lat, Adj_ppbV) ==
    [Compound |-> Compound, City |-> City, Round |-> Round,
     CensusTract |-> CensusTract, lon |-> lon, lat |-> lat, Adj_ppbV |-> Adj_ppbV]

\* three tracts, one of them measured twice, and a row of another compound
GdfThree(v) ==
    << Measurement("benzene", "A", 1, 1, Int2F(0), Int2F(0), Int2F(1)),
       Measurement("benzene", "A", 1, 1, Int2F(0), Int2F(0), Int2F(3)),
       Measurement("benzene", "A", 1, 2, Int2F(20), Int2F(0), Int2F(2)),
       Measurement("toluene", "A", 1, 2, Int2F(20), Int2F(0), Int2F(7)),
       Measurement("benzene", "A", 1, 3, Int2F(0), Int2F(20), Int2F(v)) >>

\* the tables a caller may pass as _gdf: three tracts with one value or
\* another in the third, two tracts, one tract, rows of tracts that have no
\* geometry, and no row of the compound
Datasets ==
    { GdfThree(3), GdfThree(5),
      SubSeq(GdfThree(3), 1, 4),
      SubSeq(GdfThree(3), 1, 2),
      << Measurement("benzene", "A", 1, 8, NaN, NaN, Int2F(1)),
         Measurement("benzene", "A", 1, 9, NaN, NaN, Int2F(2)) >>,
      << Measurement("toluene", "A", 1, 2, Int2F(20), Int2F(0), Int2F(7)) >> }

\* the hashed arguments of compute_interpolation: all but _gdf
Key(compound, method, cities, rounds, grid_res, agg_func, power, variogram) ==
    [compound |-> compound, method |-> method, cities |-> cities, rounds |-> rounds,
     grid_res |-> grid_res, agg_func |-> agg_func, power |-> power,
     variogram |-> variogram]

\* the selections of the sidebar: three methods for city A, and a city that
\* has no row
Keys ==
    {Key("benzene", method, {"A"}, {1}, 2, "mean", Int2F(2), "gaussian") :
        method \in {"idw", "linear", "kriging_ordinary"}}
    \cup {Key("benzene", "idw", {"B"}, {1}, 2, "mean", Int2F(2), "gaussian")}

RECURSIVE Sorted(_)
\* the numbers of S in ascending order
Sorted(S) ==
    IF S = {} THEN <<>>
    ELSE LET m == CHOOSE v \in S : \A w \in S : v <= w
         IN  <<m>> \o Sorted(S \ {m})

\* Series.mean() and Series.max(), which skip NaN; the values are whole numbers
Aggregate(values, agg_func) ==
    LET finite == {k \in 1..Len(values) : IsFinite(values[k])}
        ns == [k \in 1..Len(values) |-> IF k \in finite THEN values[k].n ELSE 0]
    IN  IF finite = {} THEN NaN
        ELSE IF agg_func = "max"
        THEN Int2F(CHOOSE v \in {ns[k] : k \in finite} : \A k \in finite : v >= ns[k])
        ELSE Frac(SeqSum(ns), Cardinality(finite))

\* VOCDataLoader.aggregate_by_tract(df, None, agg_func): one row for each
\* group of (CensusTract, lat, lon), in the order of the keys; groupby drops
\* the rows with NaN in a key. A tract has one place in the tables drawn here
aggregate_by_tract(df, agg_func) ==
    LET Located(r) == IsFinite(r.lat) /\ IsFinite(r.lon)
        rows == SelectSeq(df, Located)
        tracts == Sorted({rows[k].CensusTract : k \in 1..Len(rows)})
    IN  [g \in 1..Len(tracts) |->
            LET InGroup(r) == r.CensusTract = tracts[g]
                group == SelectSeq(rows, InGroup)
            IN  [CensusTract |-> tracts[g], lat |-> group[1].lat, lon |-> group[1].lon,
                 Adj_ppbV |-> Aggregate([k \in 1..Len(group) |-> group[k].Adj_ppbV],
                                        agg_func)]]

\* the tuple compute_interpolation returns; none marks XI, YI and ZI as None,
\* agg.none marks agg_data as None
Returns(none, XI, YI, ZI, agg_none, agg_data) ==
    [none |-> none, XI |-> XI, YI |-> YI, ZI |-> ZI,
     agg |-> [none |-> agg_none, rows |-> agg_data]]

\* the rows the sidebar selects, app.py:67-71
Selected(key, r) ==
    r.Compound = key.compound /\ r.City \in key.cities /\ r.Round \in key.rounds

\* the keyword arguments of the method, app.py:83-87
MethodKwargs(key) ==
    IF key.method = "idw" THEN Kwargs(key.power, Absent, "", Absent)
    ELSE IF StartsWithKriging(key.method)
    THEN Kwargs(Absent, Absent, key.variogram, Absent)
    ELSE NoKwargs

\* app.py:92-102: what the try statement makes of the result r of interpolate
Tried(filtered, agg_data, r) ==
    IF r.raised # NoExc
    THEN [raised |-> NoExc,
          value |-> Returns(TRUE, <<>>, <<>>, <<>>, FALSE, agg_data),
          filtered |-> filtered, agg_data |-> agg_data, constructed |-> TRUE,
          called |-> TRUE, e |-> r.raised, warned |-> r.warned]
    ELSE [raised |-> NoExc,
          value |-> Returns(FALSE, r.XI, r.YI, r.ZI, FALSE, agg_data),
          filtered |-> filtered, agg_data |-> agg_data, constructed |-> TRUE,
          called |-> TRUE, e |-> NoExc, warned |-> r.warned]

\* app.py:89-102: the engine new is constructed outside the try statement,
\* and interpolate is called inside it
Constructed(available, key, lib, filtered, agg_data, new) ==
    IF new.raised # NoExc
    THEN [raised |-> new.raised,
          value |-> Returns(TRUE, <<>>, <<>>, <<>>, TRUE, <<>>),
          filtered |-> filtered, agg_data |-> agg_data, constructed |-> FALSE,
          called |-> FALSE, e |-> NoExc, warned |-> <<>>]
    ELSE Tried(filtered, agg_data,
               Interpolate(new.self, available, Column(agg_data, "lon"),
                           Column(agg_data, "lat"), Column(agg_data, "Adj_ppbV"),
                           key.grid_res, NoBounds, lib))

Aggregated_ThreePoints(registry, available, key, lib, filtered, agg_data) ==
    IF Len(agg_data) < 2
    THEN [raised |-> NoExc,
          value |-> Returns(TRUE, <<>>, <<>>, <<>>, FALSE, agg_data),
          filtered |-> filtered, agg_data |-> agg_data, constructed |-> FALSE,
          called |-> FALSE, e |-> NoExc, warned |-> <<>>]
    ELSE Constructed(available, key, lib, filtered, agg_data,
                     InitEngine(registry, available, key.method, MethodKwargs(key)))

\* app.py:79-89: no engine for fewer than three aggregated rows
Aggregated(registry, available, key, lib, filtered, agg_data) ==
    IF Len(agg_data) < 3
    THEN [raised |-> NoExc,
          value |-> Returns(TRUE, <<>>, <<>>, <<>>, FALSE, agg_data),
          filtered |-> filtered, agg_data |-> agg_data, constructed |-> FALSE,
          called |-> FALSE, e |-> NoExc, warned |-> <<>>]
    ELSE Constructed(available, key, lib, filtered, agg_data,
                     InitEngine(registry, available, key.method, MethodKwargs(key)))

\* app.py:73-77: nothing is aggregated when no row is selected
Filtered(registry, available, key, lib, filtered) ==
    IF Len(filtered) = 0
    THEN [raised |-> NoExc, value |-> Returns(TRUE, <<>>, <<>>, <<>>, TRUE, <<>>),
          filtered |-> filtered, agg_data |-> <<>>, constructed |-> FALSE,
          called |-> FALSE, e |-> NoExc, warned |-> <<>>]
    ELSE Aggregated(registry, available, key, lib, filtered,
                    aggregate_by_tract(filtered, key.agg_func))

\* the body of compute_interpolation, app.py:64-102: the exception it lets
\* out (NoExc when it returns), the tuple it returns, the aggregated table,
\* whether it constructed an engine and called interpolate, the exception
\* interpolate raised, and the warnings issued
ComputeInterpolationBody(registry, available, key, gdf, lib) ==
    Filtered(registry, available, key, lib,
             SelectSeq(gdf, LAMBDA r : Selected(key, r)))

\* the body on the inputs drawn here, for the registry the class body builds,
\* computed once
BodyTable ==
    [available \in BOOLEAN |-> [key \in Keys |-> [gdf \in Datasets |->
        [lib \in LibOutcomes |->
            ComputeInterpolationBody(ClassBody(available), available, key, gdf, lib)]]]]

\* the body of compute_interpolation, looked up where it is tabulated
RunBody(registry, available, key, gdf, lib) ==
    IF registry = ClassBody(available) /\ key \in Keys /\ gdf \in Datasets
    THEN BodyTable[available][key][gdf][lib]
    ELSE ComputeInterpolationBody(registry, available, key, gdf, lib)

\* app.py:11 installs the "ignore" filter before src.interpolation is imported
AppInit ==
    /\ KRIGING_AVAILABLE \in BOOLEAN
    /\ METHODS = ClassBody(KRIGING_AVAILABLE)
    /\ filterAction = "ignore"
    /\ onceRegistry =
         IF KRIGING_AVAILABLE THEN {}
         ELSE Warn(filterAction, {}, ImportWarning).registry
    /\ pc = "idle"
    /\ engine = NoEngine
    /\ ctor = NoCtor
    /\ call = NoCall
    /\ masked = NoMask
    /\ engines = <<>>
    /\ frames = <<>>
    /\ RestIdle

\* compute_interpolation(..., _gdf=gdf) through the wrapper of st.cache_data:
\* the entry of the hashed arguments is returned if there is one (_gdf has a
\* leading underscore and is not hashed); else the body runs, and what it
\* returns is stored, while an exception it lets out is not
App_Miss(key, gdf, lib, b) ==
    /\ app' = [made |-> TRUE, key |-> key, gdf |-> gdf, lib |-> lib,
               hit |-> FALSE, raised |-> b.raised, value |-> b.value,
               filtered |-> b.filtered, agg_data |-> b.agg_data,
               constructed |-> b.constructed, called |-> b.called, e |-> b.e]
    /\ memo' = IF b.raised = NoExc
               THEN Update(memo, [k \in {key} |-> b.value])
               ELSE memo
    /\ onceRegistry' = WarnAll(filterAction, onceRegistry, b.warned).registry

App_Call(key, gdf, lib) ==
    /\ \/ key \in DOMAIN memo
       \/ Cardinality(DOMAIN memo) < MaxEntries
    /\ IF key \in DOMAIN memo
       THEN /\ app' = [made |-> TRUE, key |-> key, gdf |-> gdf, lib |-> lib, hit |-> TRUE,
                       raised |-> NoExc, value |-> memo[key],
                       filtered |-> <<>>, agg_data |-> <<>>, constructed |-> FALSE,
                       called |-> FALSE, e |-> NoExc]
            /\ UNCHANGED <<memo, onceRegistry>>
       ELSE App_Miss(key, gdf, lib,
                     RunBody(METHODS, KRIGING_AVAILABLE, key, gdf, lib))
    /\ UNCHANGED <<KRIGING_AVAILABLE, METHODS, filterAction, seqVars, concVars,
                   maskLog, loop, disk, geo>>

App_CallAny ==
    \E key \in Keys, gdf \in Datasets :
        \E lib \in IF key.method = "idw" THEN {"returns"} ELSE LibOutcomes :
            App_Call(key, gdf, lib)

AppNext == App_CallAny

AppSpec == AppInit /\ [][AppNext]_vars

-----------------------------------------------------------------------------
(* CensusTractGeocoder.get_tracts and the cache file *)

\* most calls of get_tracts on one geocoder
MaxCalls == 3

STATE_FIPS == "48"

COUNTY_FIPS == "245"

\* a GEOID, by the parts that str.startswith reads
Geoid(state, county, tract) == [state |-> state, county |-> county, tract |-> tract]

\* a tract of the shapefile: position in the table, GEOID and bounding box
Tract(index, GEOID, x0, y0, x1, y1) ==
    [index |-> index, GEOID |-> GEOID, x0 |-> x0, y0 |-> y0, x1 |-> x1, y1 |-> y1]

\* the table of the state that the server holds, in its edition v: the first
\* tract lies in another county, and the second is redrawn between editions
TigerTracts(v) ==
    << Tract(0, Geoid("48", "201", 1), 0, 0, 2, 2),
       Tract(1, Geoid("48", "245", 1), 4, 0, 6 + 2 * v, 2),
       Tract(2, Geoid("48", "245", 2), 4, 4, 8, 6) >>

\* what the request, the status check, the archive and the read of the
\* shapefile can do: one of them raises, or the table of an edition arrives
NetOutcomes ==
    [stage : {"get", "status", "zip"}, v : {0}] \cup [stage : {"ok"}, v : {1, 2}]

\* _download_tiger_tracts: nothing of it touches the cache file
download_tiger_tracts(net) ==
    CASE net.stage = "get" ->
           [raised |-> Exc("ConnectionError", "", "", {}, "", ""), gdf |-> <<>>]
      [] net.stage = "status" ->
           [raised |-> Exc("HTTPError", "", "", {}, "", ""), gdf |-> <<>>]
      [] net.stage = "zip" ->
           [raised |-> Exc("BadZipFile", "", "", {}, "", ""), gdf |-> <<>>]
      [] OTHER -> [raised |-> NoExc, gdf |-> TigerTracts(net.v)]

\* gdf['GEOID'].str.startswith(prefix), the rows kept with their index
InCounty(row) == row.GEOID.state = STATE_FIPS /\ row.GEOID.county = COUNTY_FIPS

\* the columns added to a row: centroid and area of its box
WithColumns(row) ==
    [index |-> row.index, GEOID |-> row.GEOID,
     x0 |-> row.x0, y0 |-> row.y0, x1 |-> row.x1, y1 |-> row.y1,
     centroid_lon |-> (row.x0 + row.x1) \div 2,
     centroid_lat |-> (row.y0 + row.y1) \div 2,
     area_sqkm |-> (row.x1 - row.x0) * (row.y1 - row.y0)]

\* the frame of the county, lines 56 to 68
Processed(gdf) ==
    LET kept == SelectSeq(gdf, InCounty)
    IN  [k \in 1..Len(kept) |-> WithColumns(kept[k])]

\* to_file(driver='GeoJSON'): the features are written in order, the index is not
to_file(gdf, file) ==
    [exists |-> TRUE,
     content |-> [k \in 1..Len(gdf) |->
                    [c \in DOMAIN gdf[k] \ {"index"} |-> gdf[k][c]]],
     mtime |-> file.mtime + 1]

\* gpd.read_file: the features of the file under a fresh RangeIndex
read_file(file) ==
    [k \in 1..Len(file.content) |->
        [c \in DOMAIN file.content[k] \cup {"index"} |->
            IF c = "index" THEN k - 1 ELSE file.content[k][c]]]

get_tracts_IgnoresTheCache(file, force_download, net) ==
    LET d == download_tiger_tracts(net)
    IN  IF d.raised # NoExc
        THEN [raised |-> d.raised, returned |-> <<>>, file |-> file,
              downloaded |-> TRUE, stored |-> FALSE]
        ELSE [raised |-> NoExc, returned |-> Processed(d.gdf),
              file |-> to_file(Processed(d.gdf), file),
              downloaded |-> TRUE, stored |-> TRUE]

\* get_tracts(force_download): the file is read if it exists and no download
\* is forced; else the table is downloaded, cut to the county, and saved
get_tracts(file, force_download, net) ==
    IF file.exists /\ ~force_download
    THEN [raised |-> NoExc, returned |-> read_file(file), file |-> file,
          downloaded |-> FALSE, stored |-> FALSE]
    ELSE LET d == download_tiger_tracts(net)
         IN  IF d.raised # NoExc
             THEN [raised |-> d.raised, returned |-> <<>>, file |-> file,
                   downloaded |-> TRUE, stored |-> FALSE]
             ELSE [raised |-> NoExc, returned |-> Processed(d.gdf),
                   file |-> to_file(Processed(d.gdf), file),
                   downloaded |-> TRUE, stored |-> TRUE]

\* the cache file an earlier run of the program left
OldFile == to_file(Processed(TigerTracts(0)), NoFile)

\* CensusTractGeocoder(): the directory is made, the file is as it was found
GeoInit ==
    /\ KRIGING_AVAILABLE \in BOOLEAN
    /\ METHODS = ClassBody(KRIGING_AVAILABLE)
    /\ filterAction = "ignore"
    /\ onceRegistry =
         IF KRIGING_AVAILABLE THEN {}
         ELSE Warn(filterAction, {}, ImportWarning).registry
    /\ pc = "idle"
    /\ engine = NoEngine
    /\ ctor = NoCtor
    /\ call = NoCall
    /\ masked = NoMask
    /\ engines = <<>>
    /\ frames = <<>>
    /\ maskLog = <<>>
    /\ loop = NoLoop
    /\ memo = <<>>
    /\ app = NoApp
    /\ disk \in {NoFile, OldFile}
    /\ geo = NoGeo

\* one call of get_tracts, from its entry to its return or its exception;
\* calls counts the calls so far and completed those of them that returned
Geo_GetTracts(force_download, net) ==
    LET calls == IF geo.made THEN geo.calls ELSE 0
        completed == IF geo.made THEN geo.completed ELSE 0
        r == get_tracts(disk, force_download, net)
    IN  /\ calls < MaxCalls
        /\ geo' = [made |-> TRUE, force_download |-> force_download, net |-> net,
                   before |-> disk, earlier |-> completed,
                   raised |-> r.raised, returned |-> r.returned,
                   downloaded |-> r.downloaded, stored |-> r.stored,
                   calls |-> calls + 1,
                   completed |-> IF r.raised = NoExc THEN completed + 1 ELSE completed]
        /\ disk' = r.file
        /\ UNCHANGED <<importVars, seqVars, concVars, maskLog, loop, memo, app>>

Geo_GetTractsAny ==
    \E force_download \in BOOLEAN, net \in NetOutcomes :
        Geo_GetTracts(force_download, net)

GeoNext == Geo_GetTractsAny

GeoSpec == GeoInit /\ [][GeoNext]_vars

-----------------------------------------------------------------------------
(* Vocabulary of the properties *)

\* the last call let an exception out
Failed == call.made /\ call.r.raised # NoExc

\* the last call returned a grid
Returned == call.made /\ call.r.raised = NoExc

\* the last call entered the external method and the library raised in it
PrimaryFailed(entry) ==
    /\ call.made
    /\ call.lib = "raises"
    /\ call.r.invoked # <<>>
    /\ call.r.invoked[1] = entry

\* the last call went on to the IDW implementation after its own method failed
FellBack == call.made /\ Len(call.r.invoked) = 2 /\ call.r.invoked[2] = "_idw"

\* the rows of the last call with no NaN and no infinite entry
FiniteMask ==
    [i \in 1..Len(call.x) |->
        IsFinite(call.x[i]) /\ IsFinite(call.y[i]) /\ IsFinite(call.z[i])]

UsablePoints == Cardinality({i \in 1..Len(call.x) : FiniteMask[i]})

\* what an IDW engine with this engine's parameters returns for the last call
DirectIdw ==
    Interpolate([engine EXCEPT !.method = "idw"], KRIGING_AVAILABLE,
                call.x, call.y, call.z, call.grid_resolution, call.bounds, "returns")

\* what an IDW engine with the default parameters returns for the last call
DefaultIdw ==
    Interpolate([engine EXCEPT !.method = "idw", !.power = Int2F(2),
                               !.smoothing = Int2F(0)],
                KRIGING_AVAILABLE,
                call.x, call.y, call.z, call.grid_resolution, call.bounds, "returns")

InsufficientData(e) ==
    e.cls = "ValueError" /\ e.msg = "Need at least 3 points for interpolation"

-----------------------------------------------------------------------------
(* C1 *)

\* C1: when the RBF implementation raises, interpolate does not raise and
\* returns the grid that IDW with the default parameters (power 2, smoothing 0)
\* gives on the same cleaned samples and the same grid, whatever power and
\* smoothing the engine was constructed with.
C1_RbfFallbackIsDefaultIdw ==
    PrimaryFailed("_rbf") =>
        /\ call.r.raised = NoExc
        /\ call.r.ZI = DefaultIdw.ZI

-----------------------------------------------------------------------------
(* C2 *)

-----------------------------------------------------------------------------
(* C3 *)

\* C3: if a non-IDW method fails and the IDW fallback then fails too,
\* interpolate fails with a computation error, a kind of its own, whose cause
\* is the failure of the original method.
C3_DoubleFailureIsComputationError ==
    (FellBack /\ Failed) =>
        /\ call.r.raised.cls = "ComputationError"
        /\ call.r.raised.cause = LibError.cls

-----------------------------------------------------------------------------
(* C4 *)

\* C4: for every method, interpolate fails with the insufficient-data error
\* whenever fewer than 3 points are usable after NaN/infinite filtering, and
\* enters no method implementation.
C4_FewerThanThreeUsableFails ==
    (call.made /\ UsablePoints < 3) =>
        /\ InsufficientData(call.r.raised)
        /\ call.r.invoked = <<>>

-----------------------------------------------------------------------------
(* C5 *)

\* C5: constructing an engine with an identifier that is not in the registry
\* fails with a ValueError that names the identifier and lists every identifier
\* of the registry; no engine is created, and no interpolation ever runs on an
\* engine whose method is not in the registry.
C5_UnknownMethodRejected ==
    /\ (ctor.method # "" /\ ctor.method \notin DOMAIN METHODS) =>
          /\ ctor.raised.cls = "ValueError"
          /\ ctor.raised.msg = "Unknown method"
          /\ ctor.raised.names = ctor.method
          /\ ctor.raised.lists = DOMAIN METHODS
          /\ engine = NoEngine
          /\ pc \notin {"ready", "returned"}
          /\ ~call.made
    /\ call.made => engine.method \in DOMAIN METHODS

\* a kriging identifier was selected while PyKrige is missing, and rejected
C5_Witness ==
    /\ ~KRIGING_AVAILABLE
    /\ ctor.method = "kriging_ordinary"
    /\ ctor.raised.cls = "ValueError"
    /\ ctor.raised.lists = DOMAIN BaseMethods

-----------------------------------------------------------------------------
(* C6 *)

\* a parameter of the last call lies outside its domain: IDW power <= 0,
\* IDW smoothing < 0, or a resolution below 2
OutOfDomain ==
    \/ /\ engine.method = "idw"
       /\ \/ engine.power.t = "num" /\ engine.power.n <= 0
          \/ engine.smoothing.t = "num" /\ engine.smoothing.n < 0
    \/ call.grid_resolution < 2

\* C6: a call with an out-of-domain parameter (IDW power <= 0, smoothing < 0,
\* or resolution < 2) on three or more usable points fails with a configuration
\* error (a ValueError that is not the insufficient-data error) and produces no
\* grid.
C6_OutOfDomainParameterFails ==
    (call.made /\ UsablePoints >= 3 /\ OutOfDomain) =>
        /\ Failed
        /\ call.r.raised.cls = "ValueError"
        /\ ~InsufficientData(call.r.raised)

-----------------------------------------------------------------------------
(* C7 *)

\* C7: the arrays handed to the method implementation are the rows of the
\* input, in their order, in which none of x, y, z is NaN or infinite: they
\* have one length and hold no NaN and no infinite entry.
C7_CleaningRemovesNonFinite ==
    (call.made /\ call.r.invoked # <<>>) =>
        /\ call.r.x = Compress(call.x, FiniteMask)
        /\ call.r.y = Compress(call.y, FiniteMask)
        /\ call.r.z = Compress(call.z, FiniteMask)
        /\ \A i \in 1..Len(call.r.z) :
              IsFinite(call.r.x[i]) /\ IsFinite(call.r.y[i]) /\ IsFinite(call.r.z[i])

-----------------------------------------------------------------------------
(* C8 *)

\* the last call had a valid sample set: three or more rows, all of them finite
ValidSamples == Len(call.x) >= 3 /\ UsablePoints = Len(call.x)

\* C8: for every method of the registry other than idw, the griddata methods
\* linear, cubic and nearest included, when the method's implementation raises
\* on a valid sample set and IDW itself succeeds on it, interpolate returns the
\* IDW grid and lets no exception out.
C8_FallbackIsUniform ==
    (/\ call.made
     /\ engine.method # "idw"
     /\ call.lib = "raises"
     /\ call.r.invoked # <<>>
     /\ ValidSamples
     /\ DirectIdw.raised = NoExc) =>
        /\ Returned
        /\ call.r.ZI = DirectIdw.ZI

-----------------------------------------------------------------------------
(* C9 *)

\* the text of the diagnostic that names the method entered first
DiagnosticOf(entry) ==
    IF entry = "_kriging" THEN "Kriging failed" ELSE "RBF interpolation failed"

\* C9: each call that falls back to IDW shows exactly one diagnostic, which
\* names the failing method and the reason, whatever warning filter the
\* importing program installed and however often the same fallback happened
\* before.
C9_EveryFallbackIsShown ==
    FellBack =>
        /\ Len(call.shown) = 1
        /\ call.shown[1].text = DiagnosticOf(call.r.invoked[1])
        /\ call.shown[1].reason = LibError.msg

-----------------------------------------------------------------------------
(* C10 *)

\* C10: in every reachable state the identifiers of METHODS are exactly the
\* eight base identifiers when PyKrige failed to import, and exactly those
\* eight plus kriging_ordinary and kriging_universal when it imported.
C10_RegistryContent ==
    DOMAIN METHODS =
        {"idw", "linear", "cubic", "nearest", "rbf_multiquadric", "rbf_gaussian",
         "rbf_thin_plate", "rbf_linear"}
        \cup (IF KRIGING_AVAILABLE
              THEN {"kriging_ordinary", "kriging_universal"}
              ELSE {})

\* PyKrige imported and an engine of the second kriging identifier has run
C10_Witness ==
    /\ KRIGING_AVAILABLE
    /\ call.made
    /\ engine.method = "kriging_universal"
    /\ Cardinality(DOMAIN METHODS) = Cardinality(DOMAIN BaseMethods) + Cardinality(DOMAIN KrigingMethods)

-----------------------------------------------------------------------------
(* C11 *)

\* C11: in every reachable state a kriging identifier is in the registry only
\* if PyKrige imported, no constructor call has failed with "Kriging methods
\* require PyKrige", and no interpolate call has failed with _kriging's
\* "PyKrige is not available".
C11_ProviderAbsenceNeverFailsACall ==
    /\ \A m \in DOMAIN METHODS : StartsWithKriging(m) => KRIGING_AVAILABLE
    /\ ctor.raised.msg # "Kriging methods require PyKrige"
    /\ call.r.raised.msg # "PyKrige is not available"

\* PyKrige is missing and the second kriging identifier was turned away by the
\* registry check
C11_Witness ==
    /\ ~KRIGING_AVAILABLE
    /\ ctor.method = "kriging_universal"
    /\ ctor.raised.msg = "Unknown method"
    /\ "kriging_universal" \notin ctor.raised.lists

-----------------------------------------------------------------------------
(* C12 *)

\* C12: no step of the program after the import writes the registry: every
\* construction, interpolate call (returning, failing or falling back) and
\* mask call leaves the identifiers of METHODS and their labels as they were.
C12_RegistryIsNeverWritten == [][METHODS' = METHODS]_vars

\* a fallback has been shown, a mask call has run after it, and the registry is
\* the one the class body built
C12_Witness ==
    /\ masked.made
    /\ \E w \in onceRegistry : w.lineno = 263
    /\ METHODS = ClassBody(KRIGING_AVAILABLE)

-----------------------------------------------------------------------------
(* C13 *)

\* what the call of frame f returns or raises when it runs alone on the engine
\* as it was when the call began
Alone(f) ==
    LET r == Interpolate(f.self0, KRIGING_AVAILABLE, f.args.x, f.args.y, f.args.z,
                         f.grid_resolution, f.bounds, f.lib)
    IN  [raised |-> r.raised, XI |-> r.XI, YI |-> r.YI, ZI |-> r.ZI]

\* C13: under every interleaving of two threads inside interpolate, on one
\* engine or on two, each call that ends has returned the grid, or raised the
\* exception, that the same call gives when it runs alone.
C13_InterleavedCallsRunAsAlone ==
    \A t \in DOMAIN frames : frames[t].pc = "done" => frames[t].r = Alone(frames[t])

\* both threads were inside interpolate on the same engine, each fell back to
\* IDW, and both have returned a grid
C13_Witness ==
    /\ frames # <<>>
    /\ \A t \in Threads :
          /\ frames[t].pc = "done"
          /\ frames[t].self = 1
          /\ frames[t].e # NoExc
          /\ frames[t].r.raised = NoExc
    /\ frames[1].args # frames[2].args

-----------------------------------------------------------------------------
(* C14 *)

\* C14: an interpolate call, whether it returns, falls back or raises, leaves
\* the engine (method, power, smoothing, variogram_model, rbf_smooth, kwargs)
\* and the caller's arrays x, y, z as they were; apart from the result it
\* changes nothing but the record of the warnings shown.
C14_CallLeavesEngineAndArrays ==
    [][(pc = "ready" /\ pc' = "returned") =>
          /\ engine' = engine
          /\ call'.after = [x |-> call'.x, y |-> call'.y, z |-> call'.z]
          /\ UNCHANGED <<KRIGING_AVAILABLE, METHODS, filterAction, ctor, masked,
                         concVars, restVars>>]_vars

\* a call that dropped a NaN row and fell back to IDW has returned, and the
\* caller's arrays still hold the row
C14_Witness ==
    /\ FellBack
    /\ Returned
    /\ Len(call.r.x) < Len(call.x)
    /\ call.after.x = call.x
    /\ engine.power = Int2F(1)

-----------------------------------------------------------------------------
(* C15 *)

\* the least and the greatest of the numbers of a non-empty array
Least(a) == CHOOSE v \in {a[i].n : i \in 1..Len(a)} : \A i \in 1..Len(a) : v <= a[i].n
Greatest(a) == CHOOSE v \in {a[i].n : i \in 1..Len(a)} : \A i \in 1..Len(a) : v >= a[i].n

\* the axis runs from lo to hi
Spans(axis, lo, hi) == axis[1] = lo /\ axis[Len(axis)] = hi

\* the axis runs from lo - 0.05 * (hi - lo) to hi + 0.05 * (hi - lo)
SpansPadded(axis, lo, hi) ==
    /\ 100 * axis[1] = 100 * lo - 5 * (hi - lo)
    /\ 100 * axis[Len(axis)] = 100 * hi + 5 * (hi - lo)

\* C15: a grid of resolution 2 or more drawn with no bounds given runs, on each
\* axis, from min - 0.05 * (max - min) to max + 0.05 * (max - min) of the
\* cleaned samples; drawn with explicit bounds it runs from min_x to max_x and
\* from min_y to max_y as given, whatever the samples are.
C15_AxesSpanTheBounds ==
    (call.made /\ call.grid_resolution >= 2 /\ call.r.xi # <<>>) =>
        IF call.bounds.given
        THEN /\ Spans(call.r.xi, call.bounds.min_x, call.bounds.max_x)
             /\ Spans(call.r.yi, call.bounds.min_y, call.bounds.max_y)
        ELSE /\ SpansPadded(call.r.xi, Least(call.r.x), Greatest(call.r.x))
             /\ SpansPadded(call.r.yi, Least(call.r.y), Greatest(call.r.y))

\* a grid of resolution 3 drawn with no bounds over samples that spread on
\* both axes
C15_Witness ==
    /\ call.made
    /\ ~call.bounds.given
    /\ call.r.xi = <<-1, 10, 21>>
    /\ call.r.yi = <<-1, 10, 21>>

-----------------------------------------------------------------------------
(* C16 *)

StrictlyIncreasing(axis) == \A k \in 1..(Len(axis) - 1) : axis[k] < axis[k + 1]

Constant(axis) == \A k \in 1..Len(axis) : axis[k] = axis[1]

\* C16 as stated: for a resolution of 2 or more and a valid sample set, with or
\* without explicit bounds, xi and yi have exactly resolution entries and are
\* strictly increasing.
C16_AxesStrictlyIncreasing ==
    (call.made /\ call.grid_resolution >= 2 /\ ValidSamples /\ call.r.xi # <<>>) =>
        /\ Len(call.r.xi) = call.grid_resolution
        /\ Len(call.r.yi) = call.grid_resolution
        /\ StrictlyIncreasing(call.r.xi)
        /\ StrictlyIncreasing(call.r.yi)

\* the axis drawn from lo to hi has num entries, strictly increasing when
\* lo < hi and all equal when lo = hi
WellFormedAxis(axis, lo, hi, num) ==
    /\ Len(axis) = num
    /\ lo < hi => StrictlyIncreasing(axis)
    /\ lo = hi => Constant(axis)

\* C16 amended: for a resolution of 2 or more, xi and yi have exactly resolution
\* entries; an axis is strictly increasing when its range has positive width
\* (the samples differ on that axis, or the explicit bounds have min < max) and
\* holds one value repeated when the range has zero width.
C16_AxesIncreaseWithTheRange ==
    (call.made /\ call.grid_resolution >= 2 /\ call.r.xi # <<>>) =>
        IF call.bounds.given
        THEN /\ WellFormedAxis(call.r.xi, call.bounds.min_x, call.bounds.max_x,
                               call.grid_resolution)
             /\ WellFormedAxis(call.r.yi, call.bounds.min_y, call.bounds.max_y,
                               call.grid_resolution)
        ELSE /\ WellFormedAxis(call.r.xi, Least(call.r.x), Greatest(call.r.x),
                               call.grid_resolution)
             /\ WellFormedAxis(call.r.yi, Least(call.r.y), Greatest(call.r.y),
                               call.grid_resolution)

\* a grid of resolution 3 over valid samples that share their y: xi increases
\* and yi repeats one value
C16_Witness ==
    /\ call.made
    /\ ValidSamples
    /\ call.r.xi = <<-1, 10, 21>>
    /\ call.r.yi = <<0, 0, 0>>

-----------------------------------------------------------------------------
(* C17 *)

\* the engine's IDW parameters lie in their domains
InDomain ==
    /\ engine.power.t = "num" /\ engine.power.n > 0
    /\ engine.smoothing.t = "num" /\ engine.smoothing.n >= 0

\* C17: a call of any method of the registry, with a resolution of 2 or more
\* and no bounds given, on three or more finite points that share their x or
\* their y, does not raise: it returns a grid whose coordinates on the axis
\* the points share are all one value.
C17_ZeroWidthAxisNeverRaises ==
    (/\ call.made
     /\ ValidSamples
     /\ InDomain
     /\ call.grid_resolution >= 2
     /\ ~call.bounds.given
     /\ Least(call.x) = Greatest(call.x) \/ Least(call.y) = Greatest(call.y)) =>
        /\ Returned
        /\ Least(call.x) = Greatest(call.x) => Constant(call.r.xi)
        /\ Least(call.y) = Greatest(call.y) => Constant(call.r.yi)

-----------------------------------------------------------------------------
(* C18 *)

\* v is the engine's estimate at the point (gx, gy): the estimate of the
\* external library at that point, or the IDW value of that point
EstimateAt(v, gx, gy) ==
    IF v.t = "ext" THEN v = Ext(gx, gy)
    ELSE v = IdwCell(Ints(call.r.x), Ints(call.r.y), call.r.z, gx, gy,
                     engine.power, engine.smoothing).v

\* C18: every grid interpolate returns, by any method and after a fallback,
\* has resolution rows of resolution values, ZI[i][j] being the estimate at
\* (xi[j], yi[i]), and XI[i][j] = xi[j], YI[i][j] = yi[i] to go with it.
C18_GridOrientation ==
    Returned =>
        LET n == call.grid_resolution
        IN  /\ Len(call.r.xi) = n /\ Len(call.r.yi) = n
            /\ Len(call.r.ZI) = n /\ Len(call.r.XI) = n /\ Len(call.r.YI) = n
            /\ \A i \in 1..n :
                  /\ Len(call.r.ZI[i]) = n
                  /\ Len(call.r.XI[i]) = n
                  /\ Len(call.r.YI[i]) = n
                  /\ \A j \in 1..n :
                        /\ call.r.XI[i][j] = call.r.xi[j]
                        /\ call.r.YI[i][j] = call.r.yi[i]
                        /\ EstimateAt(call.r.ZI[i][j], call.r.xi[j], call.r.yi[i])

\* a kriging call fell back and returned a 3 x 3 grid whose x axis spreads and
\* whose y axis does not, with different values along a row
C18_Witness ==
    /\ PrimaryFailed("_kriging")
    /\ Returned
    /\ call.r.xi = <<-1, 10, 21>>
    /\ call.r.yi = <<0, 0, 0>>
    /\ call.r.ZI[1][1] # call.r.ZI[1][3]

-----------------------------------------------------------------------------
(* C19 *)

\* the grid of the last call was computed by _idw, directly or as a fallback
ByIdw == Returned /\ call.r.invoked # <<>> /\ call.r.invoked[Len(call.r.invoked)] = "_idw"

\* the square of the distance from the cleaned sample k to the point (gx, gy)
SqDist(k, gx, gy) ==
    (call.r.x[k].n - gx) * (call.r.x[k].n - gx)
    + (call.r.y[k].n - gy) * (call.r.y[k].n - gy)

\* the distance from sample k to (gx, gy) plus the smoothing is below 1e-10: no
\* two coordinates differ by less than a quantum, so it is at most 0
WithinEpsilon(k, gx, gy) ==
    /\ engine.smoothing.n <= 0
    /\ SqDist(k, gx, gy) <= engine.smoothing.n * engine.smoothing.n

\* k is the nearest sample to (gx, gy), the one of lowest index among the nearest
LowestNearest(k, gx, gy) ==
    /\ \A m \in 1..Len(call.r.x) : SqDist(k, gx, gy) <= SqDist(m, gx, gy)
    /\ \A m \in 1..(k - 1) : SqDist(m, gx, gy) > SqDist(k, gx, gy)

\* C19: in a grid computed by IDW, with any power, a cell that has a sample at
\* smoothed distance below 1e-10 holds exactly the value of the nearest sample,
\* the one of lowest index when several are equally near.
C19_CoincidentCellTakesNearestSample ==
    ByIdw =>
        \A i \in 1..Len(call.r.yi) : \A j \in 1..Len(call.r.xi) :
            (\E k \in 1..Len(call.r.x) : WithinEpsilon(k, call.r.xi[j], call.r.yi[i])) =>
                \E k \in 1..Len(call.r.x) :
                    /\ LowestNearest(k, call.r.xi[j], call.r.yi[i])
                    /\ call.r.ZI[i][j] = call.r.z[k]

\* with smoothing 0, the cell at (0, 0) lies on two samples of values 5 and 1,
\* in this order, and holds 5
C19_Witness ==
    /\ ByIdw
    /\ engine.smoothing = Int2F(0)
    /\ call.bounds.given
    /\ call.r.z[1] = Int2F(5)
    /\ call.r.z[2] = Int2F(1)
    /\ call.r.ZI[1][1] = Int2F(5)

-----------------------------------------------------------------------------
(* C20 *)

\* the square of the distance from sample point k of the last mask call to
\* the grid point of cell (i, j)
MaskSqDist(k, i, j) ==
    LET p == masked.sample_points[k]
    IN  (p.x - masked.XI[i][j]) * (p.x - masked.XI[i][j])
        + (p.y - masked.YI[i][j]) * (p.y - masked.YI[i][j])

\* the least distance from cell (i, j) to a sample point exceeds max_distance
BeyondThreshold(i, j) ==
    \A k \in 1..Len(masked.sample_points) :
        \/ masked.max_distance < 0
        \/ MaskSqDist(k, i, j) > masked.max_distance * masked.max_distance

\* C20: mask_extrapolation_regions puts the sentinel (NaN) in a cell if and
\* only if the least distance from the cell to a sample point is greater than
\* max_distance; every other cell, one at exactly max_distance included, keeps
\* its value.
C20_MaskedIffBeyondThreshold ==
    (masked.made /\ masked.raised = NoExc) =>
        \A i \in 1..Len(masked.ZI) : \A j \in 1..Len(masked.ZI[i]) :
            masked.ZI_masked[i][j] =
                IF BeyondThreshold(i, j) THEN NaN ELSE masked.ZI[i][j]

-----------------------------------------------------------------------------
(* C21 *)

\* C21: a mask call that returns leaves XI, YI, ZI and sample_points as they
\* were and returns a new array; every cell of the result that is not the
\* sentinel holds the value of that cell of the input ZI.
C21_MaskLeavesItsInputs ==
    \A n \in 1..Len(maskLog) :
        LET c == maskLog[n]
        IN  /\ c.after.XI = c.XI /\ c.after.YI = c.YI /\ c.after.ZI = c.ZI
            /\ c.after.sample_points = c.sample_points
            /\ c.raised = NoExc =>
                  /\ c.after.out = "new"
                  /\ Rows(c.ZI_masked) = Rows(c.ZI)
                  /\ \A i \in 1..Rows(c.ZI) :
                        /\ Len(c.ZI_masked[i]) = Len(c.ZI[i])
                        /\ \A j \in 1..Len(c.ZI[i]) :
                              ~isnan(c.ZI_masked[i][j]) => c.ZI_masked[i][j] = c.ZI[i][j]

\* the cells of call c that hold the sentinel in its result
Sentinels(c) ==
    {<<i, j>> \in (1..Rows(c.ZI_masked)) \X (1..Cols(c.ZI_masked)) :
        isnan(c.ZI_masked[i][j])}

\* a call on a 3 x 3 grid masked some cells and kept others, and the grid it
\* was handed still holds a number in every cell
C21_Witness ==
    /\ maskLog # <<>>
    /\ maskLog[1].raised = NoExc
    /\ Rows(maskLog[1].ZI) = 3
    /\ Cardinality(Sentinels(maskLog[1])) \in 1..8
    /\ \A i \in 1..3 : \A j \in 1..3 : ~isnan(maskLog[1].after.ZI[i][j])

-----------------------------------------------------------------------------
(* C22 *)

\* C22: masking the grid a mask call returned, with the same samples and the
\* same threshold, returns that grid again, cell by cell, a sentinel cell being
\* equal to a sentinel cell.
C22_MaskingIsIdempotent ==
    \A a \in 1..Len(maskLog) : \A b \in 1..Len(maskLog) :
        (/\ a < b
         /\ maskLog[a].raised = NoExc
         /\ maskLog[b].ZI = maskLog[a].ZI_masked
         /\ maskLog[b].sample_points = maskLog[a].sample_points
         /\ maskLog[b].max_distance = maskLog[a].max_distance) =>
            /\ maskLog[b].raised = NoExc
            /\ maskLog[b].ZI_masked = maskLog[a].ZI_masked

\* a grid that came back with a sentinel in some cells and numbers in others
\* was masked again with the same threshold
C22_Witness ==
    /\ Len(maskLog) = 2
    /\ maskLog[1].raised = NoExc
    /\ Rows(maskLog[1].ZI) = 2
    /\ maskLog[2].ZI = maskLog[1].ZI_masked
    /\ maskLog[2].max_distance = maskLog[1].max_distance
    /\ Sentinels(maskLog[1]) # {}
    /\ \E i \in 1..2 : \E j \in 1..2 : IsFinite(maskLog[2].ZI_masked[i][j])

-----------------------------------------------------------------------------
(* C23 *)

\* C23: of two mask calls on the same grid and samples with thresholds
\* t1 <= t2, every cell that is the sentinel after the call with t2 is the
\* sentinel after the call with t1, so the call with t2 leaves no more sentinel
\* cells than the call with t1.
C23_MaskingIsMonotone ==
    \A a \in 1..Len(maskLog) : \A b \in 1..Len(maskLog) :
        (/\ maskLog[a].raised = NoExc /\ maskLog[b].raised = NoExc
         /\ maskLog[a].ZI = maskLog[b].ZI
         /\ maskLog[a].sample_points = maskLog[b].sample_points
         /\ maskLog[a].max_distance <= maskLog[b].max_distance) =>
            /\ Sentinels(maskLog[b]) \subseteq Sentinels(maskLog[a])
            /\ Cardinality(Sentinels(maskLog[b])) <= Cardinality(Sentinels(maskLog[a]))

\* the same 3 x 3 grid was masked with 10 and then with 21, and the second
\* call left fewer sentinel cells, but some
C23_Witness ==
    /\ Len(maskLog) = 2
    /\ maskLog[1].ZI = maskLog[2].ZI
    /\ Rows(maskLog[1].ZI) = 3
    /\ maskLog[1].max_distance = 10
    /\ maskLog[2].max_distance = 21
    /\ Sentinels(maskLog[2]) # {}
    /\ Cardinality(Sentinels(maskLog[2])) < Cardinality(Sentinels(maskLog[1]))

-----------------------------------------------------------------------------
(* C24 *)

\* the rational v lies between the whole numbers lo and hi
Between(v, lo, hi) == IsFinite(v) /\ lo * v.d <= v.n /\ v.n <= hi * v.d

\* C24: a grid that _idw returns for power > 0 and smoothing >= 0 on three or
\* more finite samples holds, in every cell, a number between the least and
\* the greatest sample value; no cell is NaN.
C24_IdwStaysWithinTheSamples ==
    (/\ loop.pc = "returned"
     /\ loop.self.power.n > 0
     /\ loop.self.smoothing.n >= 0) =>
        \A i \in 1..Rows(loop.ZI) : \A j \in 1..Cols(loop.ZI) :
            Between(loop.ZI[i][j], Least(loop.z), Greatest(loop.z))

-----------------------------------------------------------------------------
(* C26 *)

\* the index pairs of the grid of the loop
Cells == (1..Rows(loop.XI)) \X (1..Cols(loop.XI))

\* every order in which the cells can be visited, each once
Orders ==
    {o \in [1..Cardinality(Cells) -> Cells] :
        \A a \in DOMAIN o : \A b \in DOMAIN o : o[a] = o[b] => a = b}

RECURSIVE InOrder(_, _)
\* the array ZI after the body of the loop ran for the cells of order, in turn
InOrder(ZI, order) ==
    IF order = <<>> THEN ZI
    ELSE InOrder(IdwBody(loop.self, loop.x, loop.y, loop.z, loop.XI, loop.YI, ZI,
                         Head(order)[1], Head(order)[2]).ZI,
                 Tail(order))

\* C26: the grid _idw returns is the grid the body of its loop gives when the
\* cells are visited in any order, and a turn of the loop changes the cell of
\* its own indices and no other, giving it the value that follows from that
\* cell's coordinates, the samples, power and smoothing alone.
C26_CellsAreIndependent ==
    /\ [](loop.pc = "returned" =>
            \A order \in Orders : InOrder(zeros_like(loop.XI), order) = loop.ZI)
    /\ [][(loop.pc = "loop" /\ loop'.pc \in {"loop", "returned"}) =>
            /\ \A c \in Cells :
                  c # <<loop.i, loop.j>> => loop'.ZI[c[1]][c[2]] = loop.ZI[c[1]][c[2]]
            /\ loop'.ZI[loop.i][loop.j] =
                  IdwCell(Ints(loop.x), Ints(loop.y), loop.z,
                          loop.XI[loop.i][loop.j], loop.YI[loop.i][loop.j],
                          loop.self.power, loop.self.smoothing).v]_vars

\* a 2 x 2 grid has come back with four different values, one of them the
\* value of the sample its cell lies on
C26_Witness ==
    /\ loop.pc = "returned"
    /\ Cardinality(Cells) = 4
    /\ Cardinality({loop.ZI[c[1]][c[2]] : c \in Cells}) = 4
    /\ loop.ZI[1][1] = loop.z[1]

-----------------------------------------------------------------------------
(* C25 *)

\* C25: within one interpolate call no implementation is entered twice: the
\* method selected is entered at most once, IDW at most once, an IDW engine
\* enters nothing but IDW, only a kriging or RBF method is followed by IDW,
\* nothing follows the fallback, and at most one fallback is announced.
C25_NoRetryAndOneFallback ==
    call.made =>
        LET invoked == call.r.invoked
        IN  /\ Len(invoked) <= 2
            /\ \A a \in 1..Len(invoked) : \A b \in 1..Len(invoked) :
                  invoked[a] = invoked[b] => a = b
            /\ Len(invoked) = 2 =>
                  /\ invoked[1] \in {"_kriging", "_rbf"}
                  /\ invoked[2] = "_idw"
                  /\ call.lib = "raises"
            /\ engine.method = "idw" => invoked \in {<<>>, <<"_idw">>}
            /\ Len(call.r.warned) = Len(invoked) - 1 \/ call.r.warned = <<>>

\* an RBF fit failed, the fallback to IDW failed as well, and the call ended
\* there with the two implementations entered once each
C25_Witness ==
    /\ PrimaryFailed("_rbf")
    /\ Failed
    /\ call.r.invoked = <<"_rbf", "_idw">>
    /\ call.r.raised.cls = "TypeError"

-----------------------------------------------------------------------------
(* C28 *)

\* the frames f and g were handed the same samples, resolution and bounds
SameInputs(f, g) ==
    /\ f.args = g.args
    /\ f.grid_resolution = g.grid_resolution
    /\ f.bounds = g.bounds

\* the call of frame f has drawn its grid
GridDrawn(f) == f.pc \in {"line125", "except", "_idw", "done"} /\ f.g # NoGrid

\* C28: two calls on the same samples, resolution and bounds, by engines of
\* any two methods, draw the same axes and the same mesh and return that mesh;
\* a call that fell back to IDW returns the IDW values of the mesh it returns
\* (for kriging, the mesh rebuilt from xi and yi is that mesh).
C28_GridIsIndependentOfMethod ==
    /\ \A t \in DOMAIN frames : \A u \in DOMAIN frames :
          (GridDrawn(frames[t]) /\ GridDrawn(frames[u])
           /\ SameInputs(frames[t], frames[u])) =>
              frames[t].g = frames[u].g
    /\ \A t \in DOMAIN frames :
          LET f == frames[t]
          IN  (f.pc = "done" /\ f.r.raised = NoExc) =>
                /\ f.r.XI = f.g.XI /\ f.r.YI = f.g.YI
                /\ f.e # NoExc =>
                      /\ f.mesh = [XI |-> f.r.XI, YI |-> f.r.YI]
                      /\ f.r.ZI = Idw(engines[f.self], f.x, f.y, f.z, f.r.XI, f.r.YI).ZI

\* a kriging engine and an engine of another method were handed the same
\* samples, the kriging call fell back, and both returned the same mesh, whose
\* x axis spreads and whose y axis does not
C28_Witness ==
    /\ frames # <<>>
    /\ \A t \in Threads : frames[t].pc = "done" /\ frames[t].r.raised = NoExc
    /\ frames[1].self = 1 /\ frames[2].self = 2
    /\ StartsWithKriging(engines[1].method)
    /\ frames[1].e # NoExc
    /\ SameInputs(frames[1], frames[2])
    /\ frames[1].g.xi = <<-1, 21>> /\ frames[1].g.yi = <<0, 0>>
    /\ frames[2].r.XI = frames[1].r.XI

-----------------------------------------------------------------------------
(* C27 *)

\* C27: what compute_interpolation returns, from its cache or not, is what
\* its body returns when run afresh on the arguments and the table _gdf of
\* this call (with some outcome of the library).
C27_CachedResultIsFresh ==
    (app.made /\ app.raised = NoExc) =>
        \E lib \in LibOutcomes :
            app.value = ComputeInterpolationBody(METHODS, KRIGING_AVAILABLE,
                                                 app.key, app.gdf, lib).value

-----------------------------------------------------------------------------
(* C29 *)

\* (None, None, None, None)
AllNone == Returns(TRUE, <<>>, <<>>, <<>>, TRUE, <<>>)

\* (None, None, None, agg_data)
OnlyTable(agg_data) == Returns(TRUE, <<>>, <<>>, <<>>, FALSE, agg_data)

\* the body of compute_interpolation ran in the last call
BodyRan == app.made /\ ~app.hit

\* C29 as stated: interpolate is called only on an aggregated table of 3 or
\* more rows; with 0 rows the body returns (None, None, None, None) and with 1
\* or 2 rows (None, None, None, agg_data), constructing no engine and raising
\* nothing; an exception of interpolate becomes (None, None, None, agg_data).
C29_FewRowsReturnNone ==
    BodyRan =>
        /\ app.called => Len(app.agg_data) >= 3
        /\ Len(app.agg_data) = 0 =>
              app.value = AllNone /\ ~app.constructed /\ app.raised = NoExc
        /\ Len(app.agg_data) \in {1, 2} =>
              /\ app.value = OnlyTable(app.agg_data)
              /\ ~app.constructed /\ app.raised = NoExc
        /\ app.e # NoExc =>
              app.value = OnlyTable(app.agg_data) /\ app.raised = NoExc

\* C29 amended: interpolate is called only on an aggregated table of 3 or
\* more rows; when the filter selects no row the body returns (None, None,
\* None, None); when it selects rows that aggregate to fewer than 3 rows (0
\* rows when no selected tract has coordinates, 1 or 2) it returns (None,
\* None, None, agg_data); in both cases it constructs no engine and raises
\* nothing; an exception of interpolate becomes (None, None, None, agg_data).
C29_FewRowsReturnNoGrid ==
    BodyRan =>
        /\ app.called => Len(app.agg_data) >= 3
        /\ Len(app.filtered) = 0 =>
              app.value = AllNone /\ ~app.constructed /\ app.raised = NoExc
        /\ (Len(app.filtered) > 0 /\ Len(app.agg_data) < 3) =>
              /\ app.value = OnlyTable(app.agg_data)
              /\ ~app.constructed /\ app.raised = NoExc
        /\ app.e # NoExc =>
              app.value = OnlyTable(app.agg_data) /\ app.raised = NoExc

\* the filter selected two rows of tracts without coordinates, and the body
\* returned the empty aggregated table in place of None
C29_Witness ==
    /\ BodyRan
    /\ Len(app.filtered) = 2
    /\ app.agg_data = <<>>
    /\ app.value.none
    /\ ~app.value.agg.none

\* C30: get_tracts downloads only when the cache file is absent or a download
\* is forced; once a call has returned, every later call that forces no
\* download returns what the cache file holds, without a download and without
\* writing the file; and a call whose download fails leaves the file as it was
C30_DownloadsOnlyWithoutCache ==
    geo.made =>
        /\ geo.downloaded => (~geo.before.exists \/ geo.force_download)
        /\ (geo.earlier > 0 /\ ~geo.force_download) =>
               /\ geo.raised = NoExc
               /\ ~geo.downloaded
               /\ ~geo.stored
               /\ geo.returned = read_file(geo.before)
               /\ disk = geo.before
        /\ (geo.downloaded /\ geo.raised # NoExc) => disk = geo.before

\* a third call that forces nothing and reads the cache, after one call that
\* returned and one whose download failed
C30_Witness ==
    /\ geo.made
    /\ geo.calls = 3
    /\ geo.earlier = 1
    /\ ~geo.force_download
    /\ ~geo.downloaded
    /\ geo.before.mtime > 0
    /\ Len(geo.returned) = 2
    /\ disk = geo.before

=============================================================================
